---------------------------- MODULE Spec2Model ----------------------------
(***************************************************************************)
(* A model of pewter, a codec for the Windows PE/COFF format.              *)
(*                                                                         *)
(* The module is organised by component of the crate:                      *)
(*   io      src/io/mod.rs, src/io/stream.rs     readers and writers       *)
(*   header  src/pe/dos.rs, coff.rs, optional_header/, sections/mod.rs     *)
(*   rva     src/pe/sections/mod.rs              SectionTable::find_rva*   *)
(*   file    src/pe/file/mod.rs                  PEFile::parse / patch     *)
(*   def     src/pe/file/definition.rs           PEImageDef builder        *)
(* Every component has its own variables and its own specification; the    *)
(* variables of the components a specification does not exercise stay at   *)
(* their idle value.                                                       *)
(*                                                                         *)
(* Bytes are naturals in 0..255 and buffers are sequences of bytes.        *)
(* usize is 64 bits wide on the targets the crate is built for and every   *)
(* length in the model is far below 2^31, so usize arithmetic is plain     *)
(* natural arithmetic.  u32 values are naturals below 2^31 (the range of   *)
(* the checker's integers); u64 values are pairs <<low, high>> of them.    *)
(***************************************************************************)
EXTENDS Naturals, Integers, Sequences, FiniteSets, TLC

VARIABLES
    ioKind,     \* which Reader / Writer implementation the cursor is
    ioBuf,      \* PEStream::buffer, or the array a slice cursor points into
    ioPos,      \* PEStream::position, or how far a slice cursor has advanced
    ioLast,     \* the last call made on the cursor and what it returned
    ioLog,      \* history: the slices written so far by successful calls
    ioMoved,    \* history: how many times set_position has been called
    hdrKind,    \* which header structure the value is
    hdrVal,     \* the header value: the struct's fields
    hdrOut,     \* the sink after write_to(&hdrVal) and what write_to returned
    hdrIn,      \* the reader after read() of the written bytes and its result
    rvaTable,   \* SectionTable: the rows in table order
    rvaFile,    \* the file bytes handed to the data lookups
    rvaLast,    \* the last lookup made on the table and its outcome
    pfShape,    \* history: how the input buffer was laid out, cut and damaged
    pfData,     \* the byte buffer handed to parse and to patch
    pfParsed,   \* what PEFile::parse(&data) returned
    pfFile,     \* the PEFile the parse returned, with the caller's edits
    pfEdit,     \* history: the edit made to pfFile
    pfPatched,  \* what pfFile.patch(&mut data) returned, and on how short a buffer
    pfReparsed, \* what PEFile::parse(&data) returned after the patch
    bdShape,    \* history: what the PEImageDef was made from
    bdDef,      \* the PEImageDef
    bdNew,      \* the position in sections.other of the heap new_section returned
    bdAddr,     \* history: the add_data calls, the last one first: the address
                \* returned and the data added
    bdBefore,   \* history: the PEImageDef before write_file fixed its headers
    bdDir,      \* history: the data directory the caller set, and its name
    bdOut,      \* what write_file() returned
    bdParsed,   \* what PEFile::parse returned for the bytes of bdOut
    sdDefs,     \* a SectionDefinitions
    sdAdded,    \* the position in other of the heap add_section pushed last
    sdStray,    \* history: add_data was called on another heap than that one
    sdCalls,    \* history: the number of add_data calls
    secKind,    \* which special-section decoder is run
    secWraps,   \* the build: arithmetic overflow wraps, or panics
    secIn,      \* history: what the directory was made of, and its bytes
    secOut      \* what the decoder returned

ioVars == <<ioKind, ioBuf, ioPos, ioLast, ioLog, ioMoved>>
hdrVars == <<hdrKind, hdrVal, hdrOut, hdrIn>>

rvaVars == <<rvaTable, rvaFile, rvaLast>>

pfVars == <<pfShape, pfData, pfParsed, pfFile, pfEdit, pfPatched, pfReparsed>>

bdVars == <<bdShape, bdDef, bdNew, bdAddr, bdBefore, bdDir, bdOut, bdParsed>>

sdVars == <<sdDefs, sdAdded, sdStray, sdCalls>>

secVars == <<secKind, secWraps, secIn, secOut>>

vars == <<ioVars, hdrVars, rvaVars, pfVars, bdVars, sdVars, secVars>>

\* the variables of the other components
notIoVars == <<hdrVars, rvaVars, pfVars, bdVars, sdVars, secVars>>
notHdrVars == <<ioVars, rvaVars, pfVars, bdVars, sdVars, secVars>>
notRvaVars == <<ioVars, hdrVars, pfVars, bdVars, sdVars, secVars>>
notPfVars == <<ioVars, hdrVars, rvaVars, bdVars, sdVars, secVars>>
notBdVars == <<ioVars, hdrVars, rvaVars, pfVars, sdVars, secVars>>
notSdVars == <<ioVars, hdrVars, rvaVars, pfVars, bdVars, secVars>>
notSecVars == <<ioVars, hdrVars, rvaVars, pfVars, bdVars, sdVars>>

-----------------------------------------------------------------------------
(* Bounds of the model *)

\* longest buffer a cursor is created over
MaxBuf == 3
\* longest slice handed to one read_slice / write_slice call
MaxSlice == 2
\* most bytes a growable sink is driven to
MaxGrow == 4
\* most set_position calls made on one stream
MaxMoves == 1
MaxTrunc == 1
MaxRvaAndSizes == 17
MaxRows == 2
MaxFileLen == 5
MaxAddr == 6
MaxSections == 2
\* most add_data calls made on the heap of a new section
MaxAdds == 2
\* most heaps add_section pushes to one SectionDefinitions
MaxHeaps == 2
\* most add_data calls made on the heaps of one SectionDefinitions
MaxCalls == 3
\* most blocks of a base relocation directory
MaxBlocks == 2
\* most records of a certificate directory
MaxCerts == 2
\* most entries of an import lookup table before its end
MaxEntries == 2
\* most rows of an import directory before its end
MaxDlls == 2
\* most exported addresses, and most exported names, of an image
MaxExports == 2

\* bytes of raw data of every section of the parsed images
SectionBytes == 2

-----------------------------------------------------------------------------
(* Generic helpers *)

Take(s, n) == SubSeq(s, 1, n)
Drop(s, n) == SubSeq(s, n + 1, Len(s))
Min(a, b) == IF a < b THEN a ELSE b
Max(a, b) == IF a < b THEN b ELSE a

\* the byte values buffers and payloads of the io component are drawn from
IoBytes == {17, 34}

SeqsUpTo(S, n) == UNION {[1..k -> S] : k \in 0..n}

-----------------------------------------------------------------------------
(* src/error.rs *)

Ok(v) == [tag |-> "Ok", val |-> v, err |-> "", size |-> 0]
Err(kind, n) == [tag |-> "Err", val |-> <<>>, err |-> kind, size |-> n]
not_enough_data(size) == Err("NotEnoughDataLeft", size)
not_enough_space(size) == Err("NotEnoughSpaceLeft", size)
invalid_image_format == Err("InvalidImageFormat", 0)
\* a Rust panic (slice index out of range, arithmetic overflow, unwrap on None)
Panic == [tag |-> "Panic", val |-> <<>>, err |-> "panic", size |-> 0]

IsOk(r) == r.tag = "Ok"
IsErr(r) == r.tag = "Err"
IsPanic(r) == r.tag = "Panic"

-----------------------------------------------------------------------------
(* src/io/mod.rs, src/io/stream.rs: read_slice / write_slice *)

\* impl Reader for &[u8]: self is the slice; the result carries the new slice
SliceReadSlice_le(self, size) ==
    IF Len(self) <= size
    THEN [self |-> self, res |-> not_enough_data(size)]
    ELSE [self |-> Drop(self, size), res |-> Ok(Take(self, size))]

SliceReadSlice_consuming(self, size) ==
    IF Len(self) < size
    THEN [self |-> <<>>, res |-> not_enough_data(size)]
    ELSE [self |-> Drop(self, size), res |-> Ok(Take(self, size))]

SliceReadSlice(self, size) ==
    IF Len(self) < size
    THEN [self |-> self, res |-> not_enough_data(size)]
    ELSE [self |-> Drop(self, size), res |-> Ok(Take(self, size))]

\* impl Reader for PEStream<T>
StreamReadSlice_short(buffer, position, size) ==
    IF Len(buffer) < position
    THEN [position |-> position, res |-> not_enough_data(size)]
    ELSE [position |-> position + size,
          res |-> Ok(SubSeq(buffer, position + 1, Min(position + size, Len(buffer))))]

StreamReadSlice(buffer, position, size) ==
    IF Len(buffer) < position + size
    THEN [position |-> position, res |-> not_enough_data(size)]
    ELSE [position |-> position + size,
          res |-> Ok(SubSeq(buffer, position + 1, position + size))]

\* impl Writer for &mut [u8]: self is the slice; written is what the call
\* left in the part of the slice it split off
SliceWriteSlice_nocopy(self, data) ==
    IF Len(self) < Len(data)
    THEN [self |-> self, written |-> <<>>, res |-> not_enough_space(Len(data))]
    ELSE [self |-> Drop(self, Len(data)), written |-> Take(self, Len(data)),
          res |-> Ok(<<>>)]

SliceWriteSlice(self, data) ==
    IF Len(self) < Len(data)
    THEN [self |-> self, written |-> <<>>, res |-> not_enough_space(Len(data))]
    ELSE [self |-> Drop(self, Len(data)), written |-> data, res |-> Ok(<<>>)]

\* impl Writer for PEStream<&mut [u8]>
StreamWriteSlice_nomove(buffer, position, data) ==
    IF position + Len(data) > Len(buffer)
    THEN [buffer |-> buffer, position |-> position,
          res |-> not_enough_space(Len(data))]
    ELSE [buffer |-> Take(buffer, position) \o data
                       \o Drop(buffer, position + Len(data)),
          position |-> position,
          res |-> Ok(<<>>)]

StreamWriteSlice(buffer, position, data) ==
    IF position + Len(data) > Len(buffer)
    THEN [buffer |-> buffer, position |-> position,
          res |-> not_enough_space(Len(data))]
    ELSE [buffer |-> Take(buffer, position) \o data
                       \o Drop(buffer, position + Len(data)),
          position |-> position + Len(data),
          res |-> Ok(<<>>)]

\* impl Writer for Vec<u8>
VecWriteSlice(self, data) == [self |-> self \o data, res |-> Ok(<<>>)]

\* impl Writer for PEStream<Vec<u8>>.  When the buffer is too short the code
\* takes the buffer out of the stream, reserves room in it, calls set_len on
\* the emptied vector left in the stream (capacity 0: undefined behaviour for
\* every end_pos > 0) and moves the taken buffer back with its old length.
\* outcome ranges over what a build does with that: "panic" is the index
\* check of the copy failing on the buffer that was never lengthened (or the
\* set_len precondition check aborting), "grown" is the buffer lengthened
\* to end_pos, its bytes below position that were never written being fill.
\* position is not advanced on any path.
StreamVecWriteSlice_advance(buffer, position, data, outcome, fill) ==
    LET end_pos == position + Len(data)
        gap == [i \in 1..(position - Len(buffer)) |-> fill]
    IN  [buffer |-> Take(buffer \o gap, position) \o data
                       \o Drop(buffer, end_pos),
         position |-> end_pos,
         res |-> Ok(<<>>)]

StreamVecWriteSlice(buffer, position, data, outcome, fill) ==
    LET end_pos == position + Len(data)
        gap == [i \in 1..(position - Len(buffer)) |-> fill]
    IN  IF Len(buffer) < end_pos
        THEN IF outcome = "panic"
             THEN [buffer |-> buffer, position |-> position, res |-> Panic]
             ELSE [buffer |-> Take(buffer \o gap, position) \o data,
                   position |-> position,
                   res |-> Ok(<<>>)]
        ELSE [buffer |-> Take(buffer, position) \o data \o Drop(buffer, end_pos),
              position |-> position,
              res |-> Ok(<<>>)]

-----------------------------------------------------------------------------
(* src/io/mod.rs: a reader or writer handed to a generic read / write_to.  *)
(* A cursor is [kind, buf, pos]: for the slice kinds buf is the array the  *)
(* slice points into and pos how far the slice has advanced.               *)

Cursor(kind, buf, pos) == [kind |-> kind, buf |-> buf, pos |-> pos]

\* Reader::read_slice, dispatched on the implementation
ReadSlice(r, size) ==
    IF r.kind = "slice_reader"
    THEN LET x == SliceReadSlice(Drop(r.buf, r.pos), size)
         IN  [c |-> Cursor(r.kind, r.buf, Len(r.buf) - Len(x.self)), res |-> x.res]
    ELSE LET x == StreamReadSlice(r.buf, r.pos, size)
         IN  [c |-> Cursor(r.kind, r.buf, x.position), res |-> x.res]

\* Writer::write_slice, dispatched on the implementation
WriteSlice(w, data) ==
    IF w.kind = "slice_writer"
    THEN LET x == SliceWriteSlice(Drop(w.buf, w.pos), data)
         IN  [c |-> Cursor(w.kind, Take(w.buf, w.pos) \o x.written \o x.self,
                           Len(w.buf) - Len(x.self)),
              res |-> x.res]
    ELSE IF w.kind = "stream_writer"
    THEN LET x == StreamWriteSlice(w.buf, w.pos, data)
         IN  [c |-> Cursor(w.kind, x.buffer, x.position), res |-> x.res]
    ELSE LET x == VecWriteSlice(w.buf, data)
         IN  [c |-> Cursor(w.kind, x.self, w.pos), res |-> x.res]

\* the ? operator on a step's outcome [c, res]: an Ok outcome is handed to
\* what follows, an error ends the function with that error
AndThen(x, K(_)) == IF IsOk(x.res) THEN K(x) ELSE [c |-> x.c, res |-> x.res]

\* a run of writer.write(..)? calls: the first failure ends the run
RECURSIVE WriteChunks(_, _)
WriteChunks(w, chunks) ==
    IF chunks = <<>>
    THEN [c |-> w, res |-> Ok(<<>>)]
    ELSE AndThen(WriteSlice(w, Head(chunks)),
                 LAMBDA x : WriteChunks(x.c, Tail(chunks)))

\* to_le_bytes / from_le_bytes (impl_read_write_data! u16, u32, u64)
LeBytes16(v) == <<v % 256, v \div 256>>
LeBytes32(v) == <<v % 256, (v \div 256) % 256, (v \div 65536) % 256, v \div 16777216>>
LeBytes64(v) == LeBytes32(v[1]) \o LeBytes32(v[2])
FromLe16(b) == b[1] + 256 * b[2]
FromLe32(b) == b[1] + 256 * b[2] + 65536 * b[3] + 16777216 * b[4]
FromLe64(b) == <<FromLe32(SubSeq(b, 1, 4)), FromLe32(SubSeq(b, 5, 8))>>

\* from_le_bytes reading the bytes in the wrong order
FromLe16_be(b) == b[2] + 256 * b[1]

-----------------------------------------------------------------------------
(* src/pe/coff.rs: ImageFileMachine.  A machine is [tag, n]: n is the raw  *)
(* value of Other(n) and 0 for the named variants.                         *)

MachineCode ==
    [Unknown |-> \h0, Alpha |-> \h184, Alpha64 |-> \h284, Am33 |-> \h1d3,
     Amd64 |-> \h8664, Arm |-> \h1c0, Arm64 |-> \haa64, ArmNT |-> \h1c4,
     Ebc |-> \hebc, I386 |-> \h14c, IA64 |-> \h200, LoongArchH32 |-> \h6232,
     LoongArch64 |-> \h6264, M32R |-> \h9041, Mips16 |-> \h266,
     MipsFPU |-> \h366, MipsFPU16 |-> \h466, PowerPC |-> \h1f0,
     PowerPCFP |-> \h1f1, R4000 |-> \h166, RiscV32 |-> \h5032,
     RiscV64 |-> \h5064, RiscV128 |-> \h5128, Sh3 |-> \h1a2, Sh4 |-> \h1a6,
     Sh5 |-> \h1a8, Thumb |-> \h1c2, WceMipsV2 |-> \h169]

MachineNames == DOMAIN MachineCode
Machine(tag) == [tag |-> tag, n |-> 0]
MachineOther(n) == [tag |-> "Other", n |-> n]

\* ImageFileMachine::from_u16 with its catch-all arm taken for every value
Machine_from_u16_other(machine_type) == MachineOther(machine_type)

Machine_from_u16(machine_type) ==
    IF \E t \in MachineNames : MachineCode[t] = machine_type
    THEN Machine(CHOOSE t \in MachineNames : MachineCode[t] = machine_type)
    ELSE MachineOther(machine_type)

Machine_to_u16(m) == IF m.tag = "Other" THEN m.n ELSE MachineCode[m.tag]

(* src/pe/optional_header/fields.rs: ImageSubsystem, same shape *)
SubsystemCode ==
    [Unknown |-> 0, Native |-> 1, WindowsGui |-> 2, WindowsCui |-> 3,
     Os2Cui |-> 5, PosixCui |-> 7, NativeWindows |-> 8, WindowsCeGui |-> 9,
     EfiApplication |-> 10, EbiBootServiceDriver |-> 11,
     EfiRuntimeDriver |-> 12, EfiRom |-> 13, Xbox |-> 14,
     WindowsBootApplication |-> 15]

SubsystemNames == DOMAIN SubsystemCode
Subsystem(tag) == [tag |-> tag, n |-> 0]
SubsystemOther(n) == [tag |-> "Other", n |-> n]

Subsystem_from_u16(subsystem) ==
    IF \E t \in SubsystemNames : SubsystemCode[t] = subsystem
    THEN Subsystem(CHOOSE t \in SubsystemNames : SubsystemCode[t] = subsystem)
    ELSE SubsystemOther(subsystem)

Subsystem_to_u16(m) == IF m.tag = "Other" THEN m.n ELSE SubsystemCode[m.tag]

-----------------------------------------------------------------------------
(* Reading and writing the fields of a structure.  A layout lists the      *)
(* fields in the order the structure's read and write_to go through them,  *)
(* with the type each is read and written as.                              *)

F(f, ty) == [f |-> f, ty |-> ty]

\* size_of of a field type: what one reader.read() asks read_slice for
ByteLen(ty) ==
    CASE ty = "u8" -> 1
      [] ty \in {"u16", "machine", "subsystem", "flags16"} -> 2
      [] ty \in {"u32", "flags32"} -> 4
      [] ty \in {"u64", "u8x8", "u16x4"} -> 8
      [] ty = "u16x10" -> 20

\* the slices one writer.write(value) hands to write_slice: one per integer
\* ([u16; N] is written element by element), the whole array for [u8; N].
\* Bit sets (from_bits_retain / bits) are their bits.
FieldChunks(ty, v) ==
    CASE ty = "u8" -> <<<<v>>>>
      [] ty \in {"u16", "flags16"} -> <<LeBytes16(v)>>
      [] ty \in {"u32", "flags32"} -> <<LeBytes32(v)>>
      [] ty = "u64" -> <<LeBytes64(v)>>
      [] ty = "u8x8" -> <<v>>
      [] ty \in {"u16x4", "u16x10"} -> [i \in 1..Len(v) |-> LeBytes16(v[i])]
      [] ty = "machine" -> <<LeBytes16(Machine_to_u16(v))>>
      [] ty = "subsystem" -> <<LeBytes16(Subsystem_to_u16(v))>>

\* the value one reader.read() makes of the bytes read_slice gave it
FieldValue(ty, b) ==
    CASE ty = "u8" -> b[1]
      [] ty \in {"u16", "flags16"} -> FromLe16(b)
      [] ty \in {"u32", "flags32"} -> FromLe32(b)
      [] ty = "u64" -> FromLe64(b)
      [] ty = "u8x8" -> b
      [] ty \in {"u16x4", "u16x10"} ->
            [i \in 1..(Len(b) \div 2) |-> FromLe16(SubSeq(b, 2 * i - 1, 2 * i))]
      [] ty = "machine" -> Machine_from_u16(FromLe16(b))
      [] ty = "subsystem" -> Subsystem_from_u16(FromLe16(b))

RECURSIVE Flatten(_)
Flatten(ss) == IF ss = <<>> THEN <<>> ELSE Head(ss) \o Flatten(Tail(ss))

\* Ok(Self { f: reader.read()?, ... }): the fields read in layout order,
\* the first failed read ending the run with its error
RECURSIVE ReadFields(_, _, _)
ReadFields(r, layout, acc) ==
    IF layout = <<>>
    THEN [c |-> r, res |-> Ok(acc)]
    ELSE AndThen(ReadSlice(r, ByteLen(Head(layout).ty)),
                 LAMBDA x : ReadFields(x.c, Tail(layout),
                     acc @@ (Head(layout).f :> FieldValue(Head(layout).ty, x.res.val))))

ReadStruct(r, layout) == ReadFields(r, layout, <<>>)

\* writer.write(self.f)?; ... Ok(()): the fields written in layout order
WriteStruct(w, layout, h) ==
    WriteChunks(w, Flatten([i \in 1..Len(layout) |->
                                FieldChunks(layout[i].ty, h[layout[i].f])]))

-----------------------------------------------------------------------------
(* src/pe/dos.rs: ImageDosHeader *)

DosLayout ==
    <<F("e_magic", "u16"), F("e_cblp", "u16"), F("e_cp", "u16"),
      F("e_crlc", "u16"), F("e_cparhdr", "u16"), F("e_minalloc", "u16"),
      F("e_maxalloc", "u16"), F("e_ss", "u16"), F("e_sp", "u16"),
      F("e_csum", "u16"), F("e_ip", "u16"), F("e_cs", "u16"),
      F("e_lfarlc", "u16"), F("e_ovno", "u16"), F("e_res", "u16x4"),
      F("e_oemid", "u16"), F("e_oeminfo", "u16"), F("e_res2", "u16x10"),
      F("e_lfanew", "u32")>>

\* a layout with two neighbouring fields in the wrong order
DosLayout_swapped ==
    <<F("e_magic", "u16"), F("e_cblp", "u16"), F("e_cp", "u16"),
      F("e_crlc", "u16"), F("e_cparhdr", "u16"), F("e_minalloc", "u16"),
      F("e_maxalloc", "u16"), F("e_ss", "u16"), F("e_sp", "u16"),
      F("e_csum", "u16"), F("e_cs", "u16"), F("e_ip", "u16"),
      F("e_lfarlc", "u16"), F("e_ovno", "u16"), F("e_res", "u16x4"),
      F("e_oemid", "u16"), F("e_oeminfo", "u16"), F("e_res2", "u16x10"),
      F("e_lfanew", "u32")>>

DosHeaderSize == 64
DosMagicConstant == \h5A4D

DosDefault ==
    [e_magic |-> 0, e_cblp |-> 0, e_cp |-> 0, e_crlc |-> 0, e_cparhdr |-> 0,
     e_minalloc |-> 0, e_maxalloc |-> 0, e_ss |-> 0, e_sp |-> 0, e_csum |-> 0,
     e_ip |-> 0, e_cs |-> 0, e_lfarlc |-> 0, e_ovno |-> 0,
     e_res |-> <<0, 0, 0, 0>>, e_oemid |-> 0, e_oeminfo |-> 0,
     e_res2 |-> <<0, 0, 0, 0, 0, 0, 0, 0, 0, 0>>, e_lfanew |-> 0]

DosRead(r) == ReadStruct(r, DosLayout)
DosWrite(w, h) == WriteStruct(w, DosLayout, h)

-----------------------------------------------------------------------------
(* src/pe/coff.rs: CoffFileHeader *)

CoffLayout ==
    <<F("machine", "machine"), F("number_of_sections", "u16"),
      F("date_time_stamp", "u32"), F("pointer_to_symbol_table", "u32"),
      F("number_of_symbols", "u32"), F("size_of_optional_header", "u16"),
      F("characteristics", "flags16")>>

CoffHeaderSize == 20

CoffDefault ==
    [machine |-> Machine("Unknown"), number_of_sections |-> 0,
     date_time_stamp |-> 0, pointer_to_symbol_table |-> 0,
     number_of_symbols |-> 0, size_of_optional_header |-> 0,
     characteristics |-> 0]

CoffRead(r) == ReadStruct(r, CoffLayout)
CoffWrite(w, h) == WriteStruct(w, CoffLayout, h)

-----------------------------------------------------------------------------
(* src/pe/sections/mod.rs: SectionTableRow *)

RowLayout ==
    <<F("name", "u8x8"), F("virtual_size", "u32"), F("virtual_address", "u32"),
      F("size_of_raw_data", "u32"), F("pointer_to_raw_data", "u32"),
      F("pointer_to_relocations", "u32"), F("pointer_to_line_numbers", "u32"),
      F("number_of_relocaions", "u16"), F("number_of_line_numbers", "u16"),
      F("characteristics", "flags32")>>

SectionTableRowSize == 40

RowDefault ==
    [name |-> <<0, 0, 0, 0, 0, 0, 0, 0>>, virtual_size |-> 0,
     virtual_address |-> 0, size_of_raw_data |-> 0, pointer_to_raw_data |-> 0,
     pointer_to_relocations |-> 0, pointer_to_line_numbers |-> 0,
     number_of_relocaions |-> 0, number_of_line_numbers |-> 0,
     characteristics |-> 0]

RowRead(r) == ReadStruct(r, RowLayout)
RowWrite(w, h) == WriteStruct(w, RowLayout, h)

-----------------------------------------------------------------------------
(* src/pe/optional_header/data_directories.rs: ImageDataDirectory *)

DirLayout == <<F("virtual_address", "u32"), F("size", "u32")>>

ImageDataDirectorySize == 8

DirDefault == [virtual_address |-> 0, size |-> 0]

DirRead(r) == ReadStruct(r, DirLayout)
DirWrite(w, h) == WriteStruct(w, DirLayout, h)

-----------------------------------------------------------------------------
(* src/pe/optional_header/fields.rs, mod.rs, data_directories.rs           *)

\* Option<T>
None == <<>>
Some(v) == <<v>>
IsSome(o) == o # <<>>
unwrap_or(o, d) == IF o = <<>> THEN d ELSE o[1]

MagicPE32 == \h10B
MagicPE32Plus == \h20B

OptionalHeaderMagic_from_u16(sig) ==
    IF sig = MagicPE32 THEN Ok("PE32")
    ELSE IF sig = MagicPE32Plus THEN Ok("PE32Plus")
    ELSE invalid_image_format

OptionalHeaderMagic_to_u16(magic) ==
    IF magic = "PE32" THEN MagicPE32 ELSE MagicPE32Plus

\* the fields of OptionalHeaderStandardFields between magic and base_of_data
StdLayout ==
    <<F("major_linker_version", "u8"), F("minor_linker_version", "u8"),
      F("size_of_code", "u32"), F("size_of_initilized_data", "u32"),
      F("size_of_unitilized_data", "u32"), F("address_of_entry_point", "u32"),
      F("base_of_code", "u32")>>

StdSizePe == 28
StdSizePePlus == 24

\* <OptionalHeaderMagic as ReadData>::read
MagicRead(r) ==
    AndThen(ReadSlice(r, 2),
            LAMBDA x : [c |-> x.c,
                        res |-> OptionalHeaderMagic_from_u16(FromLe16(x.res.val))])

\* base_of_data read whatever the magic is
BaseOfDataRead_always(r, magic) ==
    AndThen(ReadSlice(r, 4),
            LAMBDA z : [c |-> z.c, res |-> Ok(Some(FromLe32(z.res.val)))])

\* the base_of_data field of read: present only after a PE32 magic
BaseOfDataRead(r, magic) ==
    IF magic = "PE32"
    THEN AndThen(ReadSlice(r, 4),
                 LAMBDA z : [c |-> z.c, res |-> Ok(Some(FromLe32(z.res.val)))])
    ELSE [c |-> r, res |-> Ok(None)]

\* <OptionalHeaderStandardFields as ReadData>::read
StdRead(r) ==
    AndThen(MagicRead(r), LAMBDA m :
    AndThen(ReadFields(m.c, StdLayout, "magic" :> m.res.val), LAMBDA y :
    AndThen(BaseOfDataRead(y.c, m.res.val), LAMBDA z :
        [c |-> z.c, res |-> Ok(y.res.val @@ ("base_of_data" :> z.res.val))])))

\* <&OptionalHeaderStandardFields as WriteData>::write_to
StdWrite(w, h) ==
    AndThen(WriteSlice(w, LeBytes16(OptionalHeaderMagic_to_u16(h.magic))), LAMBDA x :
    AndThen(WriteStruct(x.c, StdLayout, h), LAMBDA y :
        IF h.magic = "PE32"
        THEN WriteSlice(y.c, LeBytes32(unwrap_or(h.base_of_data, 0)))
        ELSE y))

\* OptVariant::Addr: u32 for Pe32, u64 for Pe32Plus
AddrType(variant) == IF variant = "PE32" THEN "u32" ELSE "u64"

\* OptionalHeaderWindowsSpecificFields<A>
WinLayout(variant) ==
    <<F("image_base", AddrType(variant)), F("section_alignment", "u32"),
      F("file_alignment", "u32"),
      F("major_operating_system_version", "u16"),
      F("minor_operating_system_version", "u16"),
      F("major_image_version", "u16"), F("minor_image_version", "u16"),
      F("major_subsystem_version", "u16"), F("minor_subsystem_version", "u16"),
      F("win32_version_value", "u32"), F("size_of_image", "u32"),
      F("size_of_headers", "u32"), F("check_sum", "u32"),
      F("subsystem", "subsystem"), F("dll_characteristics", "flags16"),
      F("size_of_stack_reserve", AddrType(variant)),
      F("size_of_stack_commit", AddrType(variant)),
      F("size_of_heap_reserve", AddrType(variant)),
      F("size_of_heap_commit", AddrType(variant)),
      F("loader_flags", "u32"), F("number_of_rva_and_sizes", "u32")>>

WinSizePe == 68
WinSizePePlus == 88

\* OptionalHeaderWindowsSpecific: the enum wrapping both instantiations
WinSpecific(variant, fields) == [variant |-> variant, fields |-> fields]

WinRead(r, variant) ==
    AndThen(ReadStruct(r, WinLayout(variant)),
            LAMBDA x : [c |-> x.c, res |-> Ok(WinSpecific(variant, x.res.val))])

WinWrite(w, win) == WriteStruct(w, WinLayout(win.variant), win.fields)

\* DataDirectories::ALL_DATA_DIRECTORIES
ALL_DATA_DIRECTORIES ==
    <<"export_table", "import_table", "resource_table", "exception_table",
      "certificate_table", "base_relocation_table", "debug", "architecture",
      "global_ptr", "tls_table", "load_config_table", "bound_import", "ita",
      "delay_import_descriptor", "clr_runtime_header", "reserved">>

NumberOfDirectories == 16

\* DataDirectories::default()
DataDirectoriesDefault ==
    [n \in {ALL_DATA_DIRECTORIES[i] : i \in 1..NumberOfDirectories} |-> DirDefault]

get_directory(dirs, name) == dirs[name]
set_directory(dirs, name, data) == [dirs EXCEPT ![name] = data]

\* the loop over ALL_DATA_DIRECTORIES.take(number_of_rva_and_sizes) of read
RECURSIVE ReadDirectories(_, _, _, _)
ReadDirectories(r, i, count, dirs) ==
    IF i > Min(count, NumberOfDirectories)
    THEN [c |-> r, res |-> Ok(dirs)]
    ELSE AndThen(DirRead(r),
                 LAMBDA x : ReadDirectories(x.c, i + 1, count,
                     set_directory(dirs, ALL_DATA_DIRECTORIES[i], x.res.val)))

\* the same loop of write_to
RECURSIVE WriteDirectories(_, _, _, _)
WriteDirectories(w, i, count, dirs) ==
    IF i > Min(count, NumberOfDirectories)
    THEN [c |-> w, res |-> Ok(<<>>)]
    ELSE AndThen(DirWrite(w, get_directory(dirs, ALL_DATA_DIRECTORIES[i])),
                 LAMBDA x : WriteDirectories(x.c, i + 1, count, dirs))

OptionalHeader(std, win, dirs) ==
    [standard_fields |-> std, windows_specific_fields |-> win,
     data_directories |-> dirs]

\* read with all 16 directories read whatever number_of_rva_and_sizes is
OptRead_alldirs(r) ==
    AndThen(StdRead(r), LAMBDA s :
    AndThen(WinRead(s.c, s.res.val.magic), LAMBDA win :
    AndThen(ReadDirectories(win.c, 1, NumberOfDirectories,
                            DataDirectoriesDefault), LAMBDA d :
        [c |-> d.c, res |-> Ok(OptionalHeader(s.res.val, win.res.val, d.res.val))])))

\* <OptionalHeader as ReadData>::read
OptRead(r) ==
    AndThen(StdRead(r), LAMBDA s :
    AndThen(WinRead(s.c, s.res.val.magic), LAMBDA win :
    AndThen(ReadDirectories(win.c, 1, win.res.val.fields.number_of_rva_and_sizes,
                            DataDirectoriesDefault), LAMBDA d :
        [c |-> d.c, res |-> Ok(OptionalHeader(s.res.val, win.res.val, d.res.val))])))

\* the match of write_to on (standard_fields.magic, windows_specific_fields)
\* as the format has it: each magic with its own variant
OptWriteArm_matching(magic, variant) == magic = variant

\* the match as the source has it: its two arms are (PE32, PE32(pe)) and
\* (PE32Plus, PE32(pe)); every other pair is the mismatch error
OptWriteArm(magic, variant) ==
    \/ magic = "PE32" /\ variant = "PE32"
    \/ magic = "PE32Plus" /\ variant = "PE32"

\* the match of write_to: the windows-specific fields written, or the error
WinWriteMatched(w, h) ==
    IF OptWriteArm(h.standard_fields.magic, h.windows_specific_fields.variant)
    THEN WinWrite(w, h.windows_specific_fields)
    ELSE [c |-> w, res |-> invalid_image_format]

\* <&OptionalHeader as WriteData>::write_to
OptWrite(w, h) ==
    AndThen(StdWrite(w, h.standard_fields), LAMBDA s :
    AndThen(WinWriteMatched(s.c, h), LAMBDA win :
        WriteDirectories(win.c, 1,
            h.windows_specific_fields.fields.number_of_rva_and_sizes,
            h.data_directories)))

\* OptionalHeader::size
OptSize(h) ==
    (IF h.windows_specific_fields.variant = "PE32"
     THEN StdSizePe + WinSizePe
     ELSE StdSizePePlus + WinSizePePlus)
    + h.windows_specific_fields.fields.number_of_rva_and_sizes * ImageDataDirectorySize

-----------------------------------------------------------------------------
(* The io component as a state machine: one cursor, created over a buffer, *)
(* driven by read_slice / write_slice / set_position calls.                *)

ReaderKinds == {"slice_reader", "stream_reader"}
BoundedWriterKinds == {"slice_writer", "stream_writer"}
GrowableKinds == {"vec_writer", "stream_vec"}
StreamKinds == {"stream_reader", "stream_writer", "stream_vec"}

\* a buffer of n bytes that are all different
Pattern(n) == [i \in 1..n |-> 64 + i]
Zeros(n) == [i \in 1..n |-> 0]

NoCall == [op |-> "none", size |-> 0, data |-> <<>>, prePos |-> 0,
           preBuf |-> <<>>, res |-> Ok(<<>>), prevOp |-> "none",
           prevFailed |-> FALSE]
\* the record of a call: what it was given, the cursor it found, what it
\* returned, and which call came before it and whether that one failed
Call(op, size, data, res) ==
    [op |-> op, size |-> size, data |-> data, prePos |-> ioPos,
     preBuf |-> ioBuf, res |-> res, prevOp |-> ioLast.op,
     prevFailed |-> IsErr(ioLast.res)]

IoIdle ==
    /\ ioKind = "idle"
    /\ ioBuf = <<>>
    /\ ioPos = 0
    /\ ioLast = NoCall
    /\ ioLog = <<>>
    /\ ioMoved = 0

IoInit ==
    /\ ioKind \in ReaderKinds \cup BoundedWriterKinds \cup GrowableKinds
    /\ ioBuf \in IF ioKind \in ReaderKinds THEN {Pattern(n) : n \in 0..MaxBuf}
                 ELSE IF ioKind \in BoundedWriterKinds
                 THEN {Zeros(n) : n \in 0..MaxBuf}
                 ELSE {<<>>}
    /\ ioPos = 0
    /\ ioLast = NoCall
    /\ ioLog = <<>>
    /\ ioMoved = 0

IoAlive == ~IsPanic(ioLast.res)

\* the history of written slices is kept for as long as the cursor has only
\* been moved by its own reads and writes
Logged(res, data) == IF IsOk(res) /\ ioMoved = 0 THEN ioLog \o data ELSE ioLog

\* the slice a slice cursor currently is
IoSlice == Drop(ioBuf, ioPos)

\* <&[u8] as Reader>::read_slice(size)
IoSliceRead(size) ==
    /\ ioKind = "slice_reader" /\ IoAlive
    /\ LET r == SliceReadSlice(IoSlice, size)
       IN  /\ ioPos' = Len(ioBuf) - Len(r.self)
           /\ ioLast' = Call("read_slice", size, <<>>, r.res)
    /\ UNCHANGED <<ioKind, ioBuf, ioLog, ioMoved>>
    /\ UNCHANGED notIoVars

\* <PEStream<T> as Reader>::read_slice(size)
IoStreamRead(size) ==
    /\ ioKind = "stream_reader" /\ IoAlive
    /\ LET r == StreamReadSlice(ioBuf, ioPos, size)
       IN  /\ ioPos' = r.position
           /\ ioLast' = Call("read_slice", size, <<>>, r.res)
    /\ UNCHANGED <<ioKind, ioBuf, ioLog, ioMoved>>
    /\ UNCHANGED notIoVars

\* <&mut [u8] as Writer>::write_slice(data)
IoSliceWrite(data) ==
    /\ ioKind = "slice_writer" /\ IoAlive
    /\ LET r == SliceWriteSlice(IoSlice, data)
       IN  /\ ioBuf' = Take(ioBuf, ioPos) \o r.written \o r.self
           /\ ioPos' = Len(ioBuf) - Len(r.self)
           /\ ioLast' = Call("write_slice", Len(data), data, r.res)
           /\ ioLog' = Logged(r.res, data)
    /\ UNCHANGED <<ioKind, ioMoved>>
    /\ UNCHANGED notIoVars

\* <PEStream<&mut [u8]> as Writer>::write_slice(data)
IoStreamWrite(data) ==
    /\ ioKind = "stream_writer" /\ IoAlive
    /\ LET r == StreamWriteSlice(ioBuf, ioPos, data)
       IN  /\ ioBuf' = r.buffer
           /\ ioPos' = r.position
           /\ ioLast' = Call("write_slice", Len(data), data, r.res)
           /\ ioLog' = Logged(r.res, data)
    /\ UNCHANGED <<ioKind, ioMoved>>
    /\ UNCHANGED notIoVars

\* <Vec<u8> as Writer>::write_slice(data)
IoVecWrite(data) ==
    /\ ioKind = "vec_writer" /\ IoAlive
    /\ Len(ioLog) + Len(data) <= MaxGrow
    /\ LET r == VecWriteSlice(ioBuf, data)
       IN  /\ ioBuf' = r.self
           /\ ioLast' = Call("write_slice", Len(data), data, r.res)
           /\ ioLog' = Logged(r.res, data)
    /\ UNCHANGED <<ioKind, ioPos, ioMoved>>
    /\ UNCHANGED notIoVars

\* <PEStream<Vec<u8>> as Writer>::write_slice(data)
IoStreamVecWrite(data, outcome, fill) ==
    /\ ioKind = "stream_vec" /\ IoAlive
    /\ Len(ioLog) + Len(data) <= MaxGrow
    /\ ioPos + Len(data) <= MaxGrow
    /\ LET r == StreamVecWriteSlice(ioBuf, ioPos, data, outcome, fill)
       IN  /\ ioBuf' = r.buffer
           /\ ioPos' = r.position
           /\ ioLast' = Call("write_slice", Len(data), data, r.res)
           /\ ioLog' = Logged(r.res, data)
    /\ UNCHANGED <<ioKind, ioMoved>>
    /\ UNCHANGED notIoVars

\* PEStream::set_position(position)
IoSetPosition(position) ==
    /\ ioKind \in StreamKinds /\ IoAlive
    /\ position <= MaxGrow
    /\ ioMoved < MaxMoves
    /\ ioPos' = position
    /\ ioLast' = Call("set_position", position, <<>>, Ok(<<>>))
    /\ ioMoved' = ioMoved + 1
    /\ UNCHANGED <<ioKind, ioBuf, ioLog>>
    /\ UNCHANGED notIoVars

IoNext ==
    \/ \E size \in 0..MaxSlice + 1 : IoSliceRead(size)
    \/ \E size \in 0..MaxSlice + 1 : IoStreamRead(size)
    \/ \E data \in SeqsUpTo(IoBytes, MaxSlice) : IoSliceWrite(data)
    \/ \E data \in SeqsUpTo(IoBytes, MaxSlice) : IoStreamWrite(data)
    \/ \E data \in SeqsUpTo(IoBytes, MaxSlice) : IoVecWrite(data)
    \/ \E data \in SeqsUpTo(IoBytes, MaxSlice), outcome \in {"panic", "grown"},
          fill \in IoBytes : IoStreamVecWrite(data, outcome, fill)
    \/ \E position \in 0..Len(ioBuf) + 1 : IoSetPosition(position)

-----------------------------------------------------------------------------
(* The header component as a state machine: one header value, written to   *)
(* a sink with write_to and read back from the written bytes with read.    *)

FixedKinds == {"dos", "coff", "row", "dir"}

\* the values the fields of the headers are drawn from: two per integer
\* type, every machine and subsystem variant, Other(n) for n outside and
\* inside the named codes
SampleOf(ty) ==
    CASE ty = "u8" -> {127, 255}
      [] ty \in {"u16", "flags16"} -> {\h1234, \hFFFF}
      [] ty \in {"u32", "flags32"} -> {\h12345678, \h7FFFFFFF}
      [] ty = "u64" -> {<<\h12345678, \h1ABCDEF0>>, <<0, 1>>}
      [] ty = "u8x8" -> {<<46, 116, 101, 120, 116, 0, 0, 0>>,
                         <<1, 2, 3, 4, 5, 6, 7, 8>>}
      [] ty = "u16x4" -> {<<\h0102, \h0304, \h0506, \h0708>>}
      [] ty = "u16x10" -> {[i \in 1..10 |-> 256 * i + 100 + i]}
      [] ty = "machine" ->
            {Machine(t) : t \in MachineNames}
                \cup {MachineOther(n) : n \in {\hABCD, \hFFFF, \h14c, \h8664, 0}}
      [] ty = "subsystem" ->
            {Subsystem(t) : t \in SubsystemNames}
                \cup {SubsystemOther(n) : n \in {\hABCD, 2}}

\* a value for the i-th field of a layout that no other field has and whose
\* bytes are all different
DistinctOf(ty, i) ==
    CASE ty = "u8" -> 200 + i
      [] ty \in {"u16", "flags16"} -> 256 * i + (100 + i)
      [] ty \in {"u32", "flags32"} ->
            i + 256 * (40 + i) + 65536 * (80 + i) + 16777216 * (100 + i)
      [] ty = "u64" -> <<i + 256 * (40 + i) + 65536 * (80 + i),
                         (120 + i) + 16777216 * i>>
      [] ty = "u8x8" -> [j \in 1..8 |-> 8 * i + j]
      [] ty = "u16x4" -> [j \in 1..4 |-> 256 * (i + j) + j]
      [] ty = "u16x10" -> [j \in 1..10 |-> 256 * (i + j) + 50 + j]
      [] ty = "machine" -> Machine("Arm64")
      [] ty = "subsystem" -> Subsystem("WindowsCui")

FieldNames(layout) == {layout[i].f : i \in 1..Len(layout)}
FieldIndex(layout, f) == CHOOSE i \in 1..Len(layout) : layout[i].f = f

DistinctValue(layout) ==
    [f \in FieldNames(layout) |->
        DistinctOf(layout[FieldIndex(layout, f)].ty, FieldIndex(layout, f))]

\* the default, the all-fields-different value, and the default with one
\* field set to each of its samples
HeaderSamples(layout, default) ==
    {default, DistinctValue(layout)}
        \cup UNION {{[default EXCEPT ![layout[i].f] = s] :
                          s \in SampleOf(layout[i].ty)} : i \in 1..Len(layout)}

LayoutOf(kind) ==
    CASE kind = "dos" -> DosLayout
      [] kind = "coff" -> CoffLayout
      [] kind = "row" -> RowLayout
      [] kind = "dir" -> DirLayout

DefaultOf(kind) ==
    CASE kind = "dos" -> DosDefault
      [] kind = "coff" -> CoffDefault
      [] kind = "row" -> RowDefault
      [] kind = "dir" -> DirDefault

\* what a writer that started empty has emitted
Emitted(x) == x.c.buf
EmptyVec == Cursor("vec_writer", <<>>, 0)

\* the optional header as the format lays it out: standard fields, the
\* windows-specific fields of its variant, the first k directories
OptBytes(h) ==
    Emitted(StdWrite(EmptyVec, h.standard_fields))
        \o Emitted(WinWrite(EmptyVec, h.windows_specific_fields))
        \o Emitted(WriteDirectories(EmptyVec, 1,
                       h.windows_specific_fields.fields.number_of_rva_and_sizes,
                       h.data_directories))

\* the two parts of the optional header that have a size of their own
PartKinds == {"std", "win_pe32", "win_pe32_plus"}

\* ImageDosHeader::SIZE, CoffFileHeader::SIZE, SectionTableRow::SIZE,
\* ImageDataDirectory::SIZE, OptionalHeader::size()
HdrSize(kind, h) ==
    CASE kind = "dos" -> DosHeaderSize
      [] kind = "coff" -> CoffHeaderSize
      [] kind = "row" -> SectionTableRowSize
      [] kind = "dir" -> ImageDataDirectorySize
      [] kind = "opt" -> OptSize(h)
      [] kind = "std" -> IF h.magic = "PE32" THEN StdSizePe ELSE StdSizePePlus
      [] kind = "win_pe32" -> WinSizePe
      [] kind = "win_pe32_plus" -> WinSizePePlus

\* writer.write(h) for the header types
HdrWriteOf(kind, w, h) ==
    CASE kind = "dos" -> DosWrite(w, h)
      [] kind = "coff" -> CoffWrite(w, h)
      [] kind = "row" -> RowWrite(w, h)
      [] kind = "dir" -> DirWrite(w, h)
      [] kind = "opt" -> OptWrite(w, h)
      [] kind = "std" -> StdWrite(w, h)
      [] kind \in {"win_pe32", "win_pe32_plus"} -> WinWrite(w, h)

\* reader.read() for the header types
HdrReadOf(kind, r) ==
    CASE kind = "dos" -> DosRead(r)
      [] kind = "coff" -> CoffRead(r)
      [] kind = "row" -> RowRead(r)
      [] kind = "dir" -> DirRead(r)
      [] kind = "opt" -> OptRead(r)
      [] kind = "std" -> StdRead(r)
      [] kind = "win_pe32" -> WinRead(r, "PE32")
      [] kind = "win_pe32_plus" -> WinRead(r, "PE32Plus")

\* OptionalHeaderStandardFields::default(), OptionalHeaderWindowsSpecificFields::default()
StdDefault ==
    [magic |-> "PE32", major_linker_version |-> 0, minor_linker_version |-> 0,
     size_of_code |-> 0, size_of_initilized_data |-> 0,
     size_of_unitilized_data |-> 0, address_of_entry_point |-> 0,
     base_of_code |-> 0, base_of_data |-> None]

WinDefault(variant) ==
    [f \in FieldNames(WinLayout(variant)) |->
        LET ty == WinLayout(variant)[FieldIndex(WinLayout(variant), f)].ty
        IN  CASE ty = "u64" -> <<0, 0>>
              [] ty = "subsystem" -> Subsystem("Unknown")
              [] OTHER -> 0]

\* the windows-specific fields an optional header of the samples has
WinSample(variant, pattern) ==
    CASE pattern = "default" -> WinDefault(variant)
      [] pattern = "distinct" -> DistinctValue(WinLayout(variant))
      [] pattern = "other" ->
            [WinDefault(variant) EXCEPT !.subsystem = SubsystemOther(\hABCD)]
      [] pattern = "other_named" ->
            [WinDefault(variant) EXCEPT !.subsystem = SubsystemOther(2)]

StdSample(magic, pattern, bod) ==
    [(IF pattern = "distinct"
      THEN DistinctValue(StdLayout) @@ StdDefault
      ELSE StdDefault)
     EXCEPT !.magic = magic, !.base_of_data = bod]

DirIndex(name) == FieldIndex([i \in 1..NumberOfDirectories |->
                                 [f |-> ALL_DATA_DIRECTORIES[i]]], name)

\* directories 1..count set to values that are all different; the others
\* at the default, or set as well when tail is TRUE
DirsSample(count, tail) ==
    [n \in DOMAIN DataDirectoriesDefault |->
        IF DirIndex(n) <= count \/ tail
        THEN [virtual_address |-> 4096 * DirIndex(n) + 16, size |-> 32 + DirIndex(n)]
        ELSE DirDefault]

\* an optional header of the samples
OptSample(magic, variant, pattern, bod, k, tail) ==
    OptionalHeader(
        StdSample(magic, pattern, bod),
        WinSpecific(variant,
            [WinSample(variant, pattern) EXCEPT !.number_of_rva_and_sizes = k]),
        DirsSample(k, tail))

NoOut == [sink |-> "none", cap |-> 0, c |-> Cursor("none", <<>>, 0), res |-> Ok(<<>>)]
NoIn == [reader |-> "none", from |-> "none", trunc |-> 0,
         c |-> Cursor("none", <<>>, 0), res |-> Ok(<<>>)]

HdrIdle ==
    /\ hdrKind = "idle"
    /\ hdrVal = <<>>
    /\ hdrOut = NoOut
    /\ hdrIn = NoIn

HdrInit ==
    /\ \/ /\ hdrKind \in FixedKinds
          /\ hdrVal \in HeaderSamples(LayoutOf(hdrKind), DefaultOf(hdrKind))
       \/ /\ hdrKind = "opt"
          /\ \E magic \in {"PE32", "PE32Plus"}, variant \in {"PE32", "PE32Plus"},
                pattern \in {"default", "distinct", "other", "other_named"},
                bod \in {None, Some(\h2000)},
                k \in 0..MaxRvaAndSizes, tail \in BOOLEAN :
                hdrVal = OptSample(magic, variant, pattern, bod, k, tail)
       \/ /\ hdrKind = "std"
          /\ \E magic \in {"PE32", "PE32Plus"}, pattern \in {"default", "distinct"},
                bod \in {None, Some(\h2000)} :
                hdrVal = StdSample(magic, pattern, bod)
       \/ /\ hdrKind \in {"win_pe32", "win_pe32_plus"}
          /\ \E pattern \in {"default", "distinct", "other", "other_named"} :
                hdrVal = WinSpecific(IF hdrKind = "win_pe32" THEN "PE32" ELSE "PE32Plus",
                             WinSample(IF hdrKind = "win_pe32" THEN "PE32" ELSE "PE32Plus",
                                       pattern))
    /\ hdrOut = NoOut
    /\ hdrIn = NoIn

\* the sinks a header is written to: an array of cap bytes behind a slice
\* or a stream, or an empty Vec<u8>
SinkCursor(sink, cap) ==
    IF sink = "vec_writer" THEN Cursor(sink, <<>>, 0)
    ELSE Cursor(sink, Zeros(cap), 0)

HdrWriteTo(sink, cap) ==
    LET w == HdrWriteOf(hdrKind, SinkCursor(sink, cap), hdrVal)
    IN  /\ hdrOut = NoOut /\ hdrIn = NoIn
        /\ hdrOut' = [sink |-> sink, cap |-> cap, c |-> w.c, res |-> w.res]
        /\ UNCHANGED <<hdrKind, hdrVal, hdrIn>>
        /\ UNCHANGED notHdrVars

\* what write_to emitted: the sink up to the cursor
HdrWritten == Take(hdrOut.c.buf,
                   IF hdrOut.sink = "vec_writer" THEN Len(hdrOut.c.buf)
                   ELSE hdrOut.c.pos)

HdrReadFrom(reader, trunc) ==
    LET bytes == Take(HdrWritten, Len(HdrWritten) - trunc)
        r == HdrReadOf(hdrKind, Cursor(reader, bytes, 0))
    IN  /\ hdrOut # NoOut /\ IsOk(hdrOut.res)
        /\ hdrIn = NoIn
        /\ trunc <= Len(HdrWritten)
        /\ hdrIn' = [reader |-> reader, from |-> "written", trunc |-> trunc,
                     c |-> r.c, res |-> r.res]
        /\ UNCHANGED <<hdrKind, hdrVal, hdrOut>>
        /\ UNCHANGED notHdrVars

\* writer.write(&header) into a sink of the structure's size, of one byte
\* less, or into a growable one
FixedHeaderWrite(sink, short) ==
    /\ hdrKind \in FixedKinds
    /\ HdrWriteTo(sink, HdrSize(hdrKind, hdrVal) - short)

\* reader.read::<Header>() from the bytes written, or from all but the last
\* trunc of them
FixedHeaderRead(reader, trunc) ==
    /\ hdrKind \in FixedKinds
    /\ HdrReadFrom(reader, trunc)

\* <&OptionalHeader as WriteData>::write_to
OptionalHeaderWrite(sink, short) ==
    /\ hdrKind = "opt"
    /\ HdrWriteTo(sink, HdrSize(hdrKind, hdrVal) - short)

\* <OptionalHeader as ReadData>::read
OptionalHeaderRead(reader, trunc) ==
    /\ hdrKind = "opt"
    /\ HdrReadFrom(reader, trunc)

\* writer.write(&fields) / reader.read() for the standard fields and the
\* windows-specific fields on their own
PartWrite(sink, short) ==
    /\ hdrKind \in PartKinds
    /\ HdrWriteTo(sink, HdrSize(hdrKind, hdrVal) - short)

PartRead(reader, trunc) ==
    /\ hdrKind \in PartKinds
    /\ HdrReadFrom(reader, trunc)

\* reader.read::<OptionalHeader>() from a buffer that holds the header as
\* the format lays it out, followed by extra bytes that are not part of it
OptionalHeaderParse(reader, extra) ==
    /\ hdrKind = "opt"
    /\ hdrVal.standard_fields.magic = hdrVal.windows_specific_fields.variant
    /\ hdrOut = NoOut /\ hdrIn = NoIn
    /\ hdrIn' = [reader |-> reader, from |-> "image", trunc |-> 0,
                 c |-> OptRead(Cursor(reader, OptBytes(hdrVal) \o Pattern(extra), 0)).c,
                 res |-> OptRead(Cursor(reader, OptBytes(hdrVal) \o Pattern(extra), 0)).res]
    /\ UNCHANGED <<hdrKind, hdrVal, hdrOut>>
    /\ UNCHANGED notHdrVars

HdrNext ==
    \/ \E sink \in BoundedWriterKinds \cup {"vec_writer"}, short \in 0..MaxTrunc :
          FixedHeaderWrite(sink, short)
    \/ \E reader \in ReaderKinds, trunc \in 0..MaxTrunc :
          FixedHeaderRead(reader, trunc)
    \/ \E sink \in BoundedWriterKinds \cup {"vec_writer"}, short \in 0..MaxTrunc :
          OptionalHeaderWrite(sink, short)
    \/ \E reader \in ReaderKinds, trunc \in 0..MaxTrunc :
          OptionalHeaderRead(reader, trunc)
    \/ \E sink \in BoundedWriterKinds \cup {"vec_writer"}, short \in 0..MaxTrunc :
          PartWrite(sink, short)
    \/ \E reader \in ReaderKinds, trunc \in 0..MaxTrunc :
          PartRead(reader, trunc)
    \/ \E reader \in ReaderKinds, extra \in {0, 3} :
          OptionalHeaderParse(reader, extra)

-----------------------------------------------------------------------------
(* src/pe/sections/mod.rs: SectionTable lookups by virtual address.       *)
(* A reference to a row is its index in the table; a slice of the file is *)
(* [start, end): the bytes file[start..end].  A function that returns     *)
(* without panicking returns Ok(value).                                    *)

Slice(start, end) == [start |-> start, end |-> end]
SliceLen(sl) == sl.end - sl.start
SliceData(file, sl) == SubSeq(file, sl.start + 1, sl.end)

\* the closure of find: virtual_address >= row.virtual_address
\*   && virtual_address < row.virtual_address + row.virtual_size
\* with the upper end taken into the range
RowContains_inclusive(row, virtual_address) ==
    /\ virtual_address >= row.virtual_address
    /\ virtual_address <= row.virtual_address + row.virtual_size

RowContains(row, virtual_address) ==
    /\ virtual_address >= row.virtual_address
    /\ virtual_address < row.virtual_address + row.virtual_size

\* let mut check_name_buffer = [0; 8]; and the loop that copies name into it
check_name_buffer(name) == Take(name \o Zeros(8), 8)

\* for section in self.iter() { if section.name == check_name_buffer .. }
\* from row i on
RECURSIVE NameFind(_, _, _)
NameFind(table, buffer, i) ==
    IF i > Len(table) THEN None
    ELSE IF table[i].name = buffer THEN Some(i)
    ELSE NameFind(table, buffer, i + 1)

\* get_by_name without its check of the length of the name
get_by_name_truncating(table, name) ==
    NameFind(table, check_name_buffer(name), 1)

\* SectionTable::get_by_name
get_by_name(table, name) ==
    IF Len(name) > 8 \/ table = <<>> THEN None
    ELSE NameFind(table, check_name_buffer(name), 1)

\* self.0.iter().find(..) from row i on
RECURSIVE IterFind(_, _, _)
IterFind(table, virtual_address, i) ==
    IF i > Len(table) THEN None
    ELSE IF RowContains(table[i], virtual_address) THEN Some(i)
    ELSE IterFind(table, virtual_address, i + 1)

\* SectionTable::find_rva
find_rva(table, virtual_address) ==
    IF virtual_address = 0 THEN None ELSE IterFind(table, virtual_address, 1)

\* SectionTableRow::get_data_range (its callers pass virtual_address >=
\* self.virtual_address)
get_data_range(row, virtual_address) ==
    Slice(row.pointer_to_raw_data + (virtual_address - row.virtual_address),
          row.pointer_to_raw_data + row.size_of_raw_data)

\* &image_base[section_start..section_end]: panics when the range is
\* reversed or ends beyond the slice
Index(len, sl) ==
    IF sl.start > sl.end \/ sl.end > len THEN Panic ELSE Ok(sl)

\* SectionTableRow::get_data
get_data(row, image_base, virtual_address) ==
    Index(Len(image_base), get_data_range(row, virtual_address))

\* SectionTable::find_rva_data: find_rva(..).map(|section| section.get_data(..))
find_rva_data(table, file_bytes, virtual_address) ==
    IF find_rva(table, virtual_address) = None THEN Ok(None)
    ELSE IF IsPanic(get_data(table[find_rva(table, virtual_address)[1]],
                             file_bytes, virtual_address))
    THEN Panic
    ELSE Ok(Some(get_data(table[find_rva(table, virtual_address)[1]],
                          file_bytes, virtual_address).val))

\* &data[..data_directory.size]: the first size bytes of a slice
Prefix(data, size) ==
    IF size > SliceLen(data) THEN Panic
    ELSE Ok(Slice(data.start, data.start + size))

\* SectionTable::find_data_directory_data_map; func returns Ok of the bytes
\* it was given when funcOk, and an error otherwise
find_data_directory_data_map(table, file_bytes, data_directory, funcOk) ==
    IF IsPanic(find_rva_data(table, file_bytes, data_directory.virtual_address))
    THEN Panic
    ELSE IF find_rva_data(table, file_bytes, data_directory.virtual_address).val = None
    THEN Ok(None)
    ELSE IF IsPanic(Prefix(
             find_rva_data(table, file_bytes, data_directory.virtual_address).val[1],
             data_directory.size))
    THEN Panic
    ELSE IF funcOk
    THEN Ok(Some(Prefix(
             find_rva_data(table, file_bytes, data_directory.virtual_address).val[1],
             data_directory.size).val))
    ELSE invalid_image_format

-----------------------------------------------------------------------------
(* The lookups as a state machine: a table and a file, one lookup made.    *)

\* the address ranges [virtual_address, +virtual_size) and raw data ranges
\* [pointer_to_raw_data, +size_of_raw_data) the rows of a table are made of
RowRanges == {<<1, 2>>, <<2, 3>>, <<0, 2>>, <<4, 0>>}
RowRaws == {<<0, 2>>, <<2, 3>>}

\* the name of the rows of a range: ".text" for two of the ranges,
\* ".textual" and the default name for the others
RowName(va) ==
    CASE va \in {<<1, 2>>, <<4, 0>>} -> <<46, 116, 101, 120, 116, 0, 0, 0>>
      [] va = <<2, 3>> -> <<46, 116, 101, 120, 116, 117, 97, 108>>
      [] OTHER -> <<0, 0, 0, 0, 0, 0, 0, 0>>

\* the names looked up: ".text", ".textual", ".textual1", "" and ".data"
QueryNames ==
    {<<46, 116, 101, 120, 116>>, <<46, 116, 101, 120, 116, 117, 97, 108>>,
     <<46, 116, 101, 120, 116, 117, 97, 108, 49>>, <<>>,
     <<46, 100, 97, 116, 97>>}

RowSamples ==
    {[RowDefault EXCEPT !.name = RowName(va),
                        !.virtual_address = va[1], !.virtual_size = va[2],
                        !.pointer_to_raw_data = raw[1], !.size_of_raw_data = raw[2]] :
        va \in RowRanges, raw \in RowRaws}

DirSizes == {0, 1, 3}

NoLookup == [op |-> "none", virtual_address |-> 0, size |-> 0, name |-> <<>>,
             res |-> Ok(None)]

RvaIdle ==
    /\ rvaTable = <<>>
    /\ rvaFile = <<>>
    /\ rvaLast = NoLookup

RvaInit ==
    /\ rvaTable \in SeqsUpTo(RowSamples, MaxRows)
    /\ rvaFile \in {Pattern(n) : n \in 0..MaxFileLen}
    /\ rvaLast = NoLookup

\* section_table.find_rva(virtual_address)
FindRva(virtual_address) ==
    /\ rvaLast = NoLookup
    /\ rvaLast' = [op |-> "find_rva", virtual_address |-> virtual_address,
                   size |-> 0, name |-> <<>>,
                   res |-> Ok(find_rva(rvaTable, virtual_address))]
    /\ UNCHANGED <<rvaTable, rvaFile>>
    /\ UNCHANGED notRvaVars

\* section_table.find_rva_data(file_bytes, virtual_address)
FindRvaData(virtual_address) ==
    /\ rvaLast = NoLookup
    /\ rvaLast' = [op |-> "find_rva_data", virtual_address |-> virtual_address,
                   size |-> 0, name |-> <<>>,
                   res |-> find_rva_data(rvaTable, rvaFile, virtual_address)]
    /\ UNCHANGED <<rvaTable, rvaFile>>
    /\ UNCHANGED notRvaVars

\* section_table.find_data_directory_data_map(file_bytes, &data_directory, func)
FindDataDirectoryDataMap(virtual_address, size, funcOk) ==
    /\ rvaLast = NoLookup
    /\ rvaLast' = [op |-> "find_data_directory_data_map",
                   virtual_address |-> virtual_address, size |-> size,
                   name |-> <<>>,
                   res |-> find_data_directory_data_map(rvaTable, rvaFile,
                               [virtual_address |-> virtual_address, size |-> size],
                               funcOk)]
    /\ UNCHANGED <<rvaTable, rvaFile>>
    /\ UNCHANGED notRvaVars

\* section_table.get_by_name(name)
GetByName(name) ==
    /\ rvaLast = NoLookup
    /\ rvaLast' = [op |-> "get_by_name", virtual_address |-> 0, size |-> 0,
                   name |-> name, res |-> Ok(get_by_name(rvaTable, name))]
    /\ UNCHANGED <<rvaTable, rvaFile>>
    /\ UNCHANGED notRvaVars

RvaNext ==
    \/ \E name \in QueryNames : GetByName(name)
    \/ \E a \in 0..MaxAddr : FindRva(a)
    \/ \E a \in 0..MaxAddr : FindRvaData(a)
    \/ \E a \in 0..MaxAddr, size \in DirSizes, funcOk \in BOOLEAN :
          FindDataDirectoryDataMap(a, size, funcOk)

-----------------------------------------------------------------------------
(* src/pe/file/mod.rs: PEFile                                              *)

\* PEFile::SIGNATURE: "PE\0\0"
SIGNATURE == <<80, 69, 0, 0>>

PEFile(dos, coff, opt, sections) ==
    [dos_header |-> dos, coff_header |-> coff, optional_header |-> opt,
     sections |-> sections]

\* signature != Self::SIGNATURE with the comparison left out
SignatureBad_never(signature) == FALSE

\* signature != Self::SIGNATURE
SignatureBad(signature) == signature # SIGNATURE

\* let signature: [u8; 4] = read_ptr.read()?; and the check that follows
SignatureRead(r) ==
    AndThen(ReadSlice(r, 4), LAMBDA x :
        IF SignatureBad(x.res.val)
        THEN [c |-> x.c, res |-> invalid_image_format]
        ELSE x)

\* (coff_header.size_of_optional_header > 0).then(|| read_ptr.read()).transpose()?
OptionalRead(r, size_of_optional_header) ==
    IF size_of_optional_header > 0
    THEN AndThen(OptRead(r), LAMBDA x : [c |-> x.c, res |-> Ok(Some(x.res.val))])
    ELSE [c |-> r, res |-> Ok(None)]

\* Table::new_linear: items_count rows read one after the other (a Vec
\* made with_capacity(n) of a 40-byte type has capacity n)
RECURSIVE new_linear(_, _, _)
new_linear(r, items_count, items) ==
    IF items_count = 0
    THEN [c |-> r, res |-> Ok(items)]
    ELSE AndThen(RowRead(r), LAMBDA x :
             new_linear(x.c, items_count - 1, Append(items, x.res.val)))

\* Sections::parse(data, section_table): every row with the bytes of the
\* file its raw-data range names
RECURSIVE SectionsParse(_, _, _)
SectionsParse(data, table, i) ==
    IF i > Len(table) THEN Ok(<<>>)
    ELSE IF table[i].pointer_to_raw_data + table[i].size_of_raw_data > Len(data)
    THEN not_enough_data(table[i].size_of_raw_data)
    ELSE IF IsOk(SectionsParse(data, table, i + 1))
    THEN Ok(<<[row |-> table[i],
               data |-> SubSeq(data, table[i].pointer_to_raw_data + 1,
                               table[i].pointer_to_raw_data
                                   + table[i].size_of_raw_data)]>>
            \o SectionsParse(data, table, i + 1).val)
    ELSE SectionsParse(data, table, i + 1)

\* the tail of parse_with_options, from the signature on
ParseImage(data, dos) ==
    AndThen(SignatureRead(Cursor("slice_reader", data, dos.e_lfanew)), LAMBDA sig :
    AndThen(CoffRead(sig.c), LAMBDA coff :
    AndThen(OptionalRead(coff.c, coff.res.val.size_of_optional_header), LAMBDA opt :
    AndThen(new_linear(opt.c, coff.res.val.number_of_sections, <<>>), LAMBDA tbl :
    AndThen([c |-> tbl.c, res |-> SectionsParse(data, tbl.res.val, 1)], LAMBDA secs :
        [c |-> secs.c,
         res |-> Ok(PEFile(dos, coff.res.val, opt.res.val, secs.res.val))])))))

\* PEFile::parse_with_options
parse_with_options(data) ==
    AndThen(DosRead(Cursor("slice_reader", data, 0)), LAMBDA dos :
        IF Len(data) < dos.res.val.e_lfanew
        THEN [c |-> dos.c, res |-> not_enough_data(dos.res.val.e_lfanew)]
        ELSE ParseImage(data, dos.res.val)).res

\* the tail of patch with the headers written one section row further on
PatchImage_shifted(self, data) ==
    IF self.dos_header.e_lfanew > Len(data)
    THEN [c |-> Cursor("slice_writer", data, 0), res |-> Panic]
    ELSE
    AndThen(WriteSlice(Cursor("slice_writer", data,
                              Min(Len(data), self.dos_header.e_lfanew + SectionTableRowSize)),
                       SIGNATURE), LAMBDA sig :
    AndThen(CoffWrite(sig.c, self.coff_header), LAMBDA coff :
        IF IsSome(self.optional_header)
        THEN OptWrite(coff.c, self.optional_header[1])
        ELSE coff))

\* the tail of patch, from the signature on; &mut data[e_lfanew..] panics
\* when e_lfanew is beyond the end of data
PatchImage(self, data) ==
    IF self.dos_header.e_lfanew > Len(data)
    THEN [c |-> Cursor("slice_writer", data, 0), res |-> Panic]
    ELSE
    AndThen(WriteSlice(Cursor("slice_writer", data, self.dos_header.e_lfanew),
                       SIGNATURE), LAMBDA sig :
    AndThen(CoffWrite(sig.c, self.coff_header), LAMBDA coff :
        IF IsSome(self.optional_header)
        THEN OptWrite(coff.c, self.optional_header[1])
        ELSE coff))

\* PEFile::patch: [data, res], the buffer as patch leaves it and its result
patch(self, data) ==
    AndThen(DosWrite(Cursor("slice_writer", data, 0), self.dos_header),
            LAMBDA dos : PatchImage(self, dos.c.buf))

-----------------------------------------------------------------------------
(* PEFile as a state machine: a buffer is parsed, the PEFile edited,       *)
(* patched back into the buffer and the buffer parsed again.               *)

\* A shape is [e, opt, k, nsec, corrupt, fa]: the file offset of the
\* signature, the optional header ("none", "PE32", "PE32Plus") and its
\* directory count, the number of sections, the damage done to the image,
\* and the file alignment of the optional header.
ShapeOpt(sh) ==
    [OptSample(sh.opt, sh.opt, "distinct",
               IF sh.opt = "PE32" THEN Some(\h2000) ELSE None, sh.k, FALSE)
     EXCEPT !.windows_specific_fields.fields.file_alignment = sh.fa,
            !.windows_specific_fields.fields.section_alignment = 2 * sh.fa]

ShapeOptSize(sh) == IF sh.opt = "none" THEN 0 ELSE OptSize(ShapeOpt(sh))

\* where the section table ends and where the image ends: every section
\* has SectionBytes bytes of raw data behind the table
ShapeRowsEnd(sh) ==
    sh.e + Len(SIGNATURE) + CoffHeaderSize + ShapeOptSize(sh)
        + SectionTableRowSize * sh.nsec
ShapeFull(sh) == ShapeRowsEnd(sh) + SectionBytes * sh.nsec

ShapeDos(sh) ==
    [DosDefault EXCEPT
        !.e_magic = IF sh.corrupt = "e_magic" THEN 0 ELSE DosMagicConstant,
        !.e_lfanew = IF sh.corrupt = "lfanew_far" THEN ShapeFull(sh) + 1 ELSE sh.e]

ShapeCoff(sh) ==
    [CoffDefault EXCEPT !.machine = Machine("Amd64"),
                        !.number_of_sections = sh.nsec,
                        !.date_time_stamp = \h12345678,
                        !.size_of_optional_header = ShapeOptSize(sh)]

ShapeRow(sh, i) ==
    [RowDefault EXCEPT !.name = IF i = 1 \/ sh.corrupt = "same_name"
                                 THEN <<46, 116, 101, 120, 116, 0, 0, 0>>
                                 ELSE <<46, 115, 48 + i, 0, 0, 0, 0, 0>>,
                       !.virtual_address = 4096 * i,
                       !.virtual_size = IF i = 2 THEN \h2000 ELSE SectionBytes,
                       !.pointer_to_raw_data = ShapeRowsEnd(sh) + SectionBytes * (i - 1),
                       !.size_of_raw_data = SectionBytes]

RECURSIVE ShapeRowsBytes(_, _)
ShapeRowsBytes(sh, i) ==
    IF i > sh.nsec THEN <<>>
    ELSE Emitted(RowWrite(EmptyVec, ShapeRow(sh, i))) \o ShapeRowsBytes(sh, i + 1)

\* the image of a shape, complete
ShapeImage(sh) ==
    Emitted(DosWrite(EmptyVec, ShapeDos(sh)))
        \o Zeros(sh.e - DosHeaderSize)
        \o (IF sh.corrupt = "signature" THEN <<80, 69, 0, 1>> ELSE SIGNATURE)
        \o Emitted(CoffWrite(EmptyVec, ShapeCoff(sh)))
        \o (IF sh.opt = "none" THEN <<>> ELSE OptBytes(ShapeOpt(sh)))
        \o ShapeRowsBytes(sh, 1)
        \o Pattern(SectionBytes * sh.nsec)

\* where the parts of the image end, and the lengths the image is cut to:
\* at every such boundary and one byte before it
ShapeBounds(sh) ==
    {0, DosHeaderSize, sh.e, sh.e + 4, sh.e + 4 + CoffHeaderSize,
     sh.e + 4 + CoffHeaderSize + ShapeOptSize(sh), ShapeRowsEnd(sh), ShapeFull(sh)}
        \cup {ShapeRowsEnd(sh) - SectionTableRowSize * j : j \in 0..sh.nsec}
ShapeCuts(sh) ==
    {n \in UNION {{b, b - 1} : b \in ShapeBounds(sh)} : n >= 0}

Shapes ==
    {[e |-> e, opt |-> o[1], k |-> o[2], nsec |-> n, corrupt |-> c,
      fa |-> \h200] :
        e \in {64, 66},
        o \in {<<"none", 0>>, <<"PE32", 0>>, <<"PE32", 2>>, <<"PE32", 16>>,
               <<"PE32Plus", 0>>, <<"PE32Plus", 2>>},
        n \in 0..MaxSections,
        c \in {"none", "e_magic", "signature", "lfanew_far"}}

Pending == [tag |-> "Pending", val |-> <<>>, err |-> "", size |-> 0]
NoPatch == [short |-> 0, res |-> Pending, before |-> <<>>]

PfIdle ==
    /\ pfShape = <<>> /\ pfData = <<>> /\ pfParsed = Pending /\ pfFile = <<>>
    /\ pfEdit = "none" /\ pfPatched = NoPatch /\ pfReparsed = Pending

PfInit ==
    /\ pfShape \in Shapes
    /\ \E cut \in ShapeCuts(pfShape) : pfData = Take(ShapeImage(pfShape), cut)
    /\ pfParsed = Pending /\ pfFile = <<>>
    /\ pfEdit = "none" /\ pfPatched = NoPatch /\ pfReparsed = Pending

\* PEFile::parse(&data)
Parse ==
    /\ pfParsed = Pending
    /\ pfParsed' = parse_with_options(pfData)
    /\ pfFile' = IF IsOk(parse_with_options(pfData))
                 THEN parse_with_options(pfData).val ELSE <<>>
    /\ UNCHANGED <<pfShape, pfData, pfEdit, pfPatched, pfReparsed>>
    /\ UNCHANGED notPfVars

\* the caller's edits of header fields that keep every size and offset
EditOf(file, edit) ==
    CASE edit = "timestamp" ->
            [file EXCEPT !.coff_header.date_time_stamp = \h1234]
      [] edit = "entry_point" ->
            [file EXCEPT !.optional_header[1].standard_fields.address_of_entry_point = \h3000]
      [] edit = "zero_debug" ->
            [file EXCEPT !.optional_header[1].data_directories.debug = DirDefault]

\* pe_file.<header>.<field> = value, as in examples/patch.rs
Edit(edit) ==
    /\ IsOk(pfParsed) /\ pfEdit = "none" /\ pfPatched = NoPatch
    /\ edit # "timestamp" => IsSome(pfFile.optional_header)
    /\ pfEdit' = edit
    /\ pfFile' = EditOf(pfFile, edit)
    /\ UNCHANGED <<pfShape, pfData, pfParsed, pfPatched, pfReparsed>>
    /\ UNCHANGED notPfVars

\* pe_file.patch(&mut data), data the parsed buffer or its first
\* len - short bytes
Patch(short) ==
    /\ IsOk(pfParsed) /\ pfPatched = NoPatch
    /\ short <= Len(pfData)
    /\ pfPatched' = [short |-> short,
                     res |-> patch(pfFile, Take(pfData, Len(pfData) - short)).res,
                     before |-> Take(pfData, Len(pfData) - short)]
    /\ pfData' = patch(pfFile, Take(pfData, Len(pfData) - short)).c.buf
    /\ UNCHANGED <<pfShape, pfParsed, pfFile, pfEdit, pfReparsed>>
    /\ UNCHANGED notPfVars

\* pe_file.patch(&mut data[..n]), n one of the lengths where a part of the
\* image ends or one byte less
PatchPrefix ==
    /\ IsOk(pfParsed) /\ pfPatched = NoPatch
    /\ \E n \in ShapeCuts(pfShape) :
          /\ n < Len(pfData) - MaxTrunc
          /\ Patch(Len(pfData) - n)

\* PEFile::parse(&data) of the patched buffer
Reparse ==
    /\ IsOk(pfPatched.res) /\ pfReparsed = Pending
    /\ pfReparsed' = parse_with_options(pfData)
    /\ UNCHANGED <<pfShape, pfData, pfParsed, pfFile, pfEdit, pfPatched>>
    /\ UNCHANGED notPfVars

PfNext ==
    \/ Parse
    \/ \E edit \in {"timestamp", "entry_point", "zero_debug"} : Edit(edit)
    \/ \E short \in 0..MaxTrunc : Patch(short)
    \/ PatchPrefix
    \/ Reparse

-----------------------------------------------------------------------------
(* src/pe/file/definition.rs: PEImageDef, SectionDefinitions, SectionHeap  *)

SectionHeap(name, virtual_address, virtual_size, characteristics, data) ==
    [name |-> name, virtual_address |-> virtual_address,
     virtual_size |-> virtual_size, characteristics |-> characteristics,
     data |-> data]

\* SectionDefinitions::default()
SectionDefinitionsDefault ==
    [text |-> None, data |-> None, rdata |-> None, pdata |-> None,
     reloc |-> None, other |-> <<>>]

PEImageDef(dos_header, file_characteristics, optional_header, sections) ==
    [dos_header |-> dos_header, file_characteristics |-> file_characteristics,
     optional_header |-> optional_header, sections |-> sections]

\* OptionalHeader::default()
OptionalHeaderDefault ==
    OptionalHeader(StdDefault, WinSpecific("PE32", WinDefault("PE32")),
                   DataDirectoriesDefault)

\* x & m on usize; -1 is the all-ones word that 0 - 1 wraps to
RECURSIVE BitAnd(_, _)
BitAnd(x, m) ==
    IF m = -1 THEN x
    ELSE IF x = 0 \/ m = 0 THEN 0
    ELSE (x % 2) * (m % 2) + 2 * BitAnd(x \div 2, m \div 2)

\* the closure allign_section: (addr + alignment) & !(alignment - 1)
allign_section(addr, alignment) ==
    (addr + alignment) - BitAnd(addr + alignment, alignment - 1)

VIRTUAL_ADDRESS_ALIGNMENT == \h1000

allign_to_next_section(addr) == allign_section(addr, VIRTUAL_ADDRESS_ALIGNMENT)

\* the named sections in the order of the array, then the others, without
\* the heaps whose virtual_address is 0
iter_sections(self) ==
    SelectSeq(self.text \o self.rdata \o self.data \o self.pdata \o self.reloc
                  \o self.other,
              LAMBDA heap : heap.virtual_address # 0)

count(self) == Len(iter_sections(self))

\* the fold of next_virtual_address over heaps[i..]
RECURSIVE HeapEndFold(_, _, _)
HeapEndFold(heaps, i, accumulator) ==
    IF i > Len(heaps) THEN accumulator
    ELSE HeapEndFold(heaps, i + 1,
             Max(accumulator, heaps[i].virtual_address + Len(heaps[i].data)))

next_virtual_address(self) ==
    allign_to_next_section(HeapEndFold(iter_sections(self), 1, 0))

\* SectionTableRow::name_str: the name up to its first zero byte
name_str(name) ==
    Take(name, Min(Len(name),
                   Len(SelectSeq(name, LAMBDA c : TRUE))
                     - Len(SelectSeq([i \in 1..Len(name) |->
                              \E j \in 1..i : name[j] = 0], LAMBDA z : z))))

\* the match of from_pe_file on the name of a heap
PlaceSection(sections, s) ==
    CASE s.name = <<46, 116, 101, 120, 116>> -> [sections EXCEPT !.text = Some(s)]
      [] s.name = <<46, 100, 97, 116, 97>> -> [sections EXCEPT !.data = Some(s)]
      [] s.name = <<46, 114, 100, 97, 116, 97>> -> [sections EXCEPT !.rdata = Some(s)]
      [] s.name = <<46, 114, 101, 108, 111, 99>> -> [sections EXCEPT !.reloc = Some(s)]
      [] s.name = <<46, 112, 100, 97, 116, 97>> -> [sections EXCEPT !.pdata = Some(s)]
      [] OTHER -> [sections EXCEPT !.other = Append(@, s)]

\* the loop of from_pe_file over the items of Sections from the i-th on
RECURSIVE PlaceSections(_, _, _)
PlaceSections(section_rows, i, sections) ==
    IF i > Len(section_rows) THEN sections
    ELSE PlaceSections(section_rows, i + 1,
             PlaceSection(sections,
                 SectionHeap(name_str(section_rows[i].row.name),
                             section_rows[i].row.virtual_address,
                             section_rows[i].row.virtual_size,
                             section_rows[i].row.characteristics,
                             section_rows[i].data)))

\* PEImageDef::from_pe_file
from_pe_file(pe_file) ==
    PEImageDef(pe_file.dos_header, pe_file.coff_header.characteristics,
               unwrap_or(pe_file.optional_header, OptionalHeaderDefault),
               PlaceSections(pe_file.sections, 1, SectionDefinitionsDefault))

\* PEImageDef::new_section: the definition with the new heap last in other
new_section(self, name, characteristics) ==
    [self EXCEPT !.sections.other =
        Append(@, SectionHeap(name, next_virtual_address(self.sections), 0,
                              characteristics, <<>>))]

\* SectionHeap::add_data: the address it returns and the heap it leaves
add_data_addr(heap) == heap.virtual_address + Len(heap.data)
add_data(heap, data) == [heap EXCEPT !.data = @ \o data]

\* ImageDataDirectory::is_null
is_null(dir) == dir.virtual_address = 0 /\ dir.size = 0

\* SectionName::ALL
SectionNameALL == ALL_DATA_DIRECTORIES

\* the fold of fix_headers over SectionName::ALL from the i-th name on
\* (i counts from 1, so the closure's i + 1 is i here)
RECURSIVE DirectoriesFold(_, _, _)
DirectoriesFold(dirs, i, acc) ==
    IF i > Len(SectionNameALL) THEN acc
    ELSE DirectoriesFold(dirs, i + 1,
             IF is_null(get_directory(dirs, SectionNameALL[i])) THEN i ELSE acc)

WinField(self, field) == self.optional_header.windows_specific_fields.fields[field]
SetWinField(self, field, value) ==
    [self EXCEPT !.optional_header.windows_specific_fields.fields[field] = value]

\* the size of one heap as output_size adds it up
AlignedLen(len, alignment) ==
    IF BitAnd(len, alignment - 1) # 0 THEN allign_section(len, alignment) ELSE len

RECURSIVE SumAligned(_, _, _)
SumAligned(heaps, i, alignment) ==
    IF i > Len(heaps) THEN 0
    ELSE AlignedLen(Len(heaps[i].data), alignment)
            + SumAligned(heaps, i + 1, alignment)

\* PEImageDef::output_size
output_size(self) ==
    WinField(self, "size_of_headers")
        + SumAligned(iter_sections(self.sections), 1,
                     WinField(self, "section_alignment"))

\* the headers' size fix_headers stores in size_of_headers
HeadersSize(self) ==
    allign_section(self.dos_header.e_lfanew + Len(SIGNATURE) + CoffHeaderSize
                       + OptSize(self.optional_header)
                       + SectionTableRowSize * count(self.sections),
                   WinField(self, "file_alignment"))

\* alignment - 1 overflows: a panic in a build that checks arithmetic
\* overflow, the all-ones word in one that wraps
FileAlignOverflows(self) == WinField(self, "file_alignment") = 0
SectionAlignOverflows(self) ==
    WinField(self, "section_alignment") = 0 /\ count(self.sections) > 0

\* fix_headers from set_size_of_image on
FixImageSize(self) ==
    SetWinField(SetWinField(self, "size_of_image", output_size(self)),
                "number_of_rva_and_sizes",
                Max(WinField(self, "number_of_rva_and_sizes"),
                    DirectoriesFold(self.optional_header.data_directories, 1, 0)))

\* PEImageDef::fix_headers: [def, res], the definition as it is left and
\* whether the call returned or panicked
fix_headers(self, wraps) ==
    IF FileAlignOverflows(self) /\ ~wraps
    THEN [def |-> self, res |-> Panic]
    ELSE IF SectionAlignOverflows(self) /\ ~wraps
    THEN [def |-> SetWinField(self, "size_of_headers", HeadersSize(self)),
          res |-> Panic]
    ELSE [def |-> FixImageSize(SetWinField(self, "size_of_headers", HeadersSize(self))),
          res |-> Ok(<<>>)]

\* let name = { ... }: the first 8 characters of the name, zero filled
NameBuffer(name) == Take(name \o Zeros(8), 8)

\* where the data of the next heap goes
NextDataOffset(data_offset, len, file_alignment) ==
    IF BitAnd(data_offset + len, file_alignment - 1) # 0
    THEN allign_section(data_offset + len, file_alignment)
    ELSE data_offset + len

\* the rows write_no_fix makes of heaps[i..], the first at data_offset
RECURSIVE SectionRows(_, _, _, _)
SectionRows(heaps, i, data_offset, file_alignment) ==
    IF i > Len(heaps) THEN <<>>
    ELSE <<[RowDefault EXCEPT
              !.name = NameBuffer(heaps[i].name),
              !.virtual_size = Max(heaps[i].virtual_size, Len(heaps[i].data)),
              !.virtual_address = heaps[i].virtual_address,
              !.characteristics = heaps[i].characteristics,
              !.pointer_to_raw_data = data_offset,
              !.size_of_raw_data = Len(heaps[i].data)]>>
         \o SectionRows(heaps, i + 1,
                NextDataOffset(data_offset, Len(heaps[i].data), file_alignment),
                file_alignment)

\* for (_, sec) in &sections { sec.write_to(&mut buffer)?; }
RECURSIVE WriteRows(_, _, _)
WriteRows(w, rows, i) ==
    IF i > Len(rows) THEN [c |-> w, res |-> Ok(<<>>)]
    ELSE AndThen(RowWrite(w, rows[i]), LAMBDA x : WriteRows(x.c, rows, i + 1))

\* while buffer.len() < n { buffer.write(0u8)?; }
PadTo(w, n) == WriteSlice(w, Zeros(Max(0, n - Len(w.buf))))

\* for (sec_data, sec) in sections { pad; buffer.write_slice(sec_data)?; }
RECURSIVE WritePayloads(_, _, _, _)
WritePayloads(w, rows, heaps, i) ==
    IF i > Len(rows) THEN [c |-> w, res |-> Ok(<<>>)]
    ELSE AndThen(PadTo(w, rows[i].pointer_to_raw_data), LAMBDA pad :
         AndThen(WriteSlice(pad.c, heaps[i].data), LAMBDA x :
             WritePayloads(x.c, rows, heaps, i + 1)))

\* the COFF header write_no_fix makes
BuiltCoff(self) ==
    [CoffDefault EXCEPT !.machine = Machine("Amd64"),
                        !.characteristics = self.file_characteristics,
                        !.size_of_optional_header = OptSize(self.optional_header),
                        !.number_of_sections = count(self.sections)]

\* write_no_fix from the section rows on, buffer holding the headers
WriteSections(w, heaps, file_alignment) ==
    AndThen(WriteRows(w, SectionRows(heaps, 1,
                         allign_section(Len(w.buf) + SectionTableRowSize * Len(heaps),
                                        file_alignment),
                         file_alignment), 1), LAMBDA rows :
        WritePayloads(rows.c, SectionRows(heaps, 1,
                         allign_section(Len(w.buf) + SectionTableRowSize * Len(heaps),
                                        file_alignment),
                         file_alignment), heaps, 1))

\* PEImageDef::write_no_fix
write_no_fix(self) ==
    AndThen(DosWrite(EmptyVec, self.dos_header), LAMBDA dos :
    AndThen(PadTo(dos.c, self.dos_header.e_lfanew), LAMBDA pad :
    AndThen(WriteSlice(pad.c, SIGNATURE), LAMBDA sig :
    AndThen(CoffWrite(sig.c, BuiltCoff(self)), LAMBDA coff :
    AndThen(OptWrite(coff.c, self.optional_header), LAMBDA opt :
        WriteSections(opt.c, iter_sections(self.sections),
                      WinField(self, "file_alignment")))))))

\* the Result<Vec<u8>> of write_no_fix
Written(x) == IF IsOk(x.res) THEN Ok(x.c.buf) ELSE x.res

\* PEImageDef::write_file: [def, res]
write_file(self, wraps) ==
    IF IsPanic(fix_headers(self, wraps).res)
    THEN fix_headers(self, wraps)
    ELSE [def |-> fix_headers(self, wraps).def,
          res |-> Written(write_no_fix(fix_headers(self, wraps).def))]

-----------------------------------------------------------------------------
(* The builder as a state machine: a PEImageDef gets a new section, data   *)
(* in it and a data directory pointing at the data, is written and the     *)
(* output parsed.                                                          *)

\* A definition is lifted from the parse of the image of a shape, or is
\* empty: every part its default but for e_lfanew and the two alignments.
EmptyDef(sh) ==
    PEImageDef([DosDefault EXCEPT !.e_lfanew = sh.e], 0,
               [OptionalHeaderDefault EXCEPT
                   !.windows_specific_fields.fields.file_alignment = sh.fa,
                   !.windows_specific_fields.fields.section_alignment = 2 * sh.fa],
               SectionDefinitionsDefault)

DefOf(sh) ==
    IF sh.corrupt = "empty" THEN EmptyDef(sh)
    ELSE from_pe_file(parse_with_options(ShapeImage(sh)).val)

BdShapes ==
    {[e |-> e, opt |-> o[1], k |-> o[2], nsec |-> n, corrupt |-> "none", fa |-> fa] :
        e \in {64, 66},
        o \in {<<"none", 0>>, <<"PE32", 0>>, <<"PE32", 2>>, <<"PE32", 16>>,
               <<"PE32Plus", 0>>, <<"PE32Plus", 2>>},
        n \in 0..MaxSections,
        fa \in {0, 16, \h200}}
    \cup
    {[e |-> e, opt |-> "PE32", k |-> 0, nsec |-> 0, corrupt |-> "empty", fa |-> fa] :
        e \in {0, 64}, fa \in {0, 16, \h200}}
    \cup
    {[e |-> 64, opt |-> "PE32", k |-> 2, nsec |-> MaxSections, corrupt |-> "same_name",
      fa |-> \h200]}

NoDir == [name |-> "", dir |-> DirDefault]

BdIdle ==
    /\ bdShape = <<>> /\ bdDef = <<>> /\ bdNew = 0 /\ bdAddr = <<>>
    /\ bdBefore = <<>>
    /\ bdDir = NoDir /\ bdOut = Pending /\ bdParsed = Pending

BdInit ==
    /\ bdShape \in BdShapes
    /\ bdDef = DefOf(bdShape)
    /\ bdNew = 0 /\ bdAddr = <<>>
    /\ bdBefore = <<>>
    /\ bdDir = NoDir /\ bdOut = Pending /\ bdParsed = Pending

\* let heap = def.new_section(name, characteristics)
NewSection(name, characteristics) ==
    /\ bdNew = 0 /\ bdOut = Pending
    /\ bdDef' = new_section(bdDef, name, characteristics)
    /\ bdNew' = Len(bdDef.sections.other) + 1
    /\ UNCHANGED <<bdShape, bdAddr, bdBefore, bdDir, bdOut, bdParsed>>
    /\ UNCHANGED notBdVars

\* let addr = heap.add_data(data)
AddData(data) ==
    /\ bdNew # 0 /\ Len(bdAddr) < MaxAdds /\ bdDir = NoDir /\ bdOut = Pending
    /\ bdAddr' = <<[addr |-> add_data_addr(bdDef.sections.other[bdNew]),
                    data |-> data]>> \o bdAddr
    /\ bdDef' = [bdDef EXCEPT !.sections.other[bdNew] = add_data(@, data)]
    /\ UNCHANGED <<bdShape, bdNew, bdBefore, bdDir, bdOut, bdParsed>>
    /\ UNCHANGED notBdVars

\* def.optional_header.data_directories.<name> =
\*     ImageDataDirectory { virtual_address: addr as u32, size }
SetDataDirectory(name, size) ==
    /\ bdAddr # <<>> /\ bdDir = NoDir /\ bdOut = Pending
    /\ bdDir' = [name |-> name,
                 dir |-> [virtual_address |-> bdAddr[1].addr, size |-> size]]
    /\ bdDef' = [bdDef EXCEPT !.optional_header.data_directories[name] =
                    [virtual_address |-> bdAddr[1].addr, size |-> size]]
    /\ UNCHANGED <<bdShape, bdNew, bdAddr, bdBefore, bdOut, bdParsed>>
    /\ UNCHANGED notBdVars

\* def.write_file(), in a build whose arithmetic wraps or panics on overflow
WriteFile(wraps) ==
    /\ bdDir # NoDir /\ bdOut = Pending
    /\ bdOut' = write_file(bdDef, wraps).res
    /\ bdDef' = write_file(bdDef, wraps).def
    /\ bdBefore' = bdDef
    /\ UNCHANGED <<bdShape, bdNew, bdAddr, bdDir, bdParsed>>
    /\ UNCHANGED notBdVars

\* PEFile::parse(&output)
ParseOutput ==
    /\ IsOk(bdOut) /\ bdParsed = Pending
    /\ bdParsed' = parse_with_options(bdOut.val)
    /\ UNCHANGED <<bdShape, bdDef, bdNew, bdAddr, bdBefore, bdDir, bdOut>>
    /\ UNCHANGED notBdVars

BdNext ==
    \/ \E name \in {<<46, 110, 101, 116>>, <<46, 100, 97, 116, 97>>},
          characteristics \in {0, \h40000040} :
          NewSection(name, characteristics)
    \/ \E n \in {0, 5} : AddData(Pattern(n))
    \/ \E name \in {"clr_runtime_header", "debug", "reserved"}, size \in {6} :
          SetDataDirectory(name, size)
    \/ \E wraps \in BOOLEAN : WriteFile(wraps)
    \/ ParseOutput

-----------------------------------------------------------------------------
(* SectionDefinitions as a state machine: heaps are pushed with            *)
(* add_section and data is added to the heaps.                             *)

\* SectionDefinitions::find_rva on the emitted heaps: the position of the
\* first heap from the i-th on that holds virtual_address, 0 for None
RECURSIVE HeapFind(_, _, _)
HeapFind(heaps, virtual_address, i) ==
    IF i > Len(heaps) THEN 0
    ELSE IF /\ virtual_address >= heaps[i].virtual_address
            /\ virtual_address < heaps[i].virtual_address + Len(heaps[i].data)
    THEN i
    ELSE HeapFind(heaps, virtual_address, i + 1)

heap_find_rva(self, virtual_address) ==
    IF virtual_address = 0 THEN 0
    ELSE HeapFind(iter_sections(self), virtual_address, 1)

\* SectionDefinitions::has_overlapping_sections
has_overlapping_sections(self) ==
    \E i \in 1..count(self) :
        /\ heap_find_rva(self, iter_sections(self)[i].virtual_address) # 0
        /\ heap_find_rva(self, iter_sections(self)[i].virtual_address) # i

\* SectionDefinitions::add_section: the definitions it leaves
add_section_base(self, section) ==
    [self EXCEPT !.other =
        Append(@, IF section.virtual_address = 0
                  THEN [section EXCEPT !.virtual_address = 4096]
                  ELSE section)]

add_section(self, section) ==
    [self EXCEPT !.other =
        Append(@, IF section.virtual_address = 0
                  THEN [section EXCEPT !.virtual_address = next_virtual_address(self)]
                  ELSE section)]

\* the definitions the run starts from: none of them with overlapping
\* sections
SdSamples ==
    {SectionDefinitionsDefault,
     [SectionDefinitionsDefault EXCEPT
        !.text = Some(SectionHeap(<<46, 116, 101, 120, 116>>, \h1000, 0, 0, Pattern(5)))],
     [SectionDefinitionsDefault EXCEPT
        !.text = Some(SectionHeap(<<46, 116, 101, 120, 116>>, \h1000, 0, 0, Pattern(5))),
        !.other = <<SectionHeap(<<46, 115, 50>>, \h3000, 0, 0, <<>>)>>]}

SdIdle == sdDefs = <<>> /\ sdAdded = 0 /\ sdStray = FALSE /\ sdCalls = 0

SdInit == sdDefs \in SdSamples /\ sdAdded = 0 /\ sdStray = FALSE /\ sdCalls = 0

\* the heaps of the definitions by where they are kept
SdTargets == {<<"text", 1>>} \cup {<<"other", i>> : i \in 1..(MaxHeaps + 1)}

SdHeld(target) ==
    IF target[1] = "text" THEN sdDefs.text # None
    ELSE target[2] <= Len(sdDefs.other)

SdHeap(target) ==
    IF target[1] = "text" THEN sdDefs.text[1] ELSE sdDefs.other[target[2]]

\* sections.add_section(SectionHeap { name, virtual_address: 0, .. })
AddSection(name) ==
    /\ Len(sdDefs.other) < MaxHeaps + 1
    /\ sdDefs' = add_section(sdDefs, SectionHeap(name, 0, 0, 0, <<>>))
    /\ sdAdded' = Len(sdDefs.other) + 1
    /\ UNCHANGED <<sdStray, sdCalls>>
    /\ UNCHANGED notSdVars

\* heap.add_data(data) on one of the heaps
SdAddData(target, data) ==
    /\ SdHeld(target)
    /\ sdCalls < MaxCalls
    /\ sdDefs' = IF target[1] = "text"
                 THEN [sdDefs EXCEPT !.text = Some(add_data(SdHeap(target), data))]
                 ELSE [sdDefs EXCEPT !.other[target[2]] = add_data(@, data)]
    /\ sdStray' = (sdStray \/ target # <<"other", sdAdded>>)
    /\ sdCalls' = sdCalls + 1
    /\ UNCHANGED sdAdded
    /\ UNCHANGED notSdVars

SdNext ==
    \/ \E name \in {<<46, 110, 101, 116>>} : AddSection(name)
    \/ \E target \in SdTargets, data \in {Pattern(5), Zeros(4096)} :
          SdAddData(target, data)

-----------------------------------------------------------------------------
(* src/pe/sections/base_relocation.rs *)

\* the cursor of `let mut data_ptr = section_data`, and data_ptr.is_empty()
SliceCursor(data) == Cursor("slice_reader", data, 0)
IsEmpty(r) == r.pos >= Len(r.buf)

\* u32::from_le_bytes kept as the 32-bit pattern: a value of 2^31 or more
\* is the negative number of the same bits
U32Bits(bytes) ==
    IF bytes[4] < 128 THEN FromLe32(bytes)
    ELSE (bytes[4] - 256) * 16777216 + bytes[3] * 65536 + bytes[2] * 256 + bytes[1]

\* read_slice of a size given as a 32-bit pattern: no slice has 2^31 bytes
ReadSliceBits(r, size) ==
    IF size < 0 THEN [c |-> r, res |-> not_enough_data(size)]
    ELSE ReadSlice(r, size)

\* BaseRelocationType::from_u8: the variants are their discriminants
BaseRelocationType_from_u8(value) ==
    IF value <= 10 THEN Ok(value) ELSE invalid_image_format

\* <BaseRelocationBlockOffsets as ReadData>::read with the type taken from
\* the high 3 bits
BaseRelocationBlockOffsetsRead_3bits(r) ==
    AndThen(ReadSlice(r, 2), LAMBDA value :
        [c |-> value.c,
         res |-> IF IsOk(BaseRelocationType_from_u8(FromLe16(value.res.val) \div 8192))
                 THEN Ok([relocation_type |-> FromLe16(value.res.val) \div 8192,
                          offset |-> FromLe16(value.res.val) % 8192])
                 ELSE invalid_image_format])

\* <BaseRelocationBlockOffsets as ReadData>::read: value >> 12 and
\* value & (0xFFFF >> 4)
BaseRelocationBlockOffsetsRead(r) ==
    AndThen(ReadSlice(r, 2), LAMBDA value :
        [c |-> value.c,
         res |-> IF IsOk(BaseRelocationType_from_u8(FromLe16(value.res.val) \div 4096))
                 THEN Ok([relocation_type |-> FromLe16(value.res.val) \div 4096,
                          offset |-> FromLe16(value.res.val) % 4096])
                 ELSE invalid_image_format])

\* while !relocation_data.is_empty() { table.push(..::read(..)?) }
RECURSIVE BlockTable(_, _)
BlockTable(relocation_data, table) ==
    IF IsEmpty(relocation_data) THEN [c |-> relocation_data, res |-> Ok(table)]
    ELSE AndThen(BaseRelocationBlockOffsetsRead(relocation_data), LAMBDA x :
             BlockTable(x.c, Append(table, x.res.val)))

\* <BaseRelocationBlockHeader as ReadData>::read on a slice.  block_size - 8
\* overflows for a block_size below 8: a panic in a build that checks
\* arithmetic overflow; in one that wraps, a size near 2^64 no slice has,
\* kept here as the negative block_size - 8
BaseRelocationBlockHeaderRead(reader, wraps) ==
    AndThen(ReadSlice(reader, 4), LAMBDA base_rva :
    AndThen(ReadSlice(base_rva.c, 4), LAMBDA block_size :
        IF U32Bits(block_size.res.val) \in 0..7
        THEN [c |-> block_size.c,
              res |-> IF wraps
                      THEN not_enough_data(U32Bits(block_size.res.val) - 8)
                      ELSE Panic]
        ELSE AndThen(ReadSliceBits(block_size.c, U32Bits(block_size.res.val) - 8),
                     LAMBDA relocation_data :
             AndThen(BlockTable(SliceCursor(relocation_data.res.val), <<>>),
                     LAMBDA table :
                 [c |-> relocation_data.c,
                  res |-> Ok([base_rva |-> U32Bits(base_rva.res.val),
                              block_size |-> U32Bits(block_size.res.val),
                              table |-> table.res.val])]))))

\* the loop of BaseRelocationDataDitectory::parse
RECURSIVE RelocationsLoop(_, _, _)
RelocationsLoop(data_ptr, relocations, wraps) ==
    IF IsEmpty(data_ptr) THEN [c |-> data_ptr, res |-> Ok(relocations)]
    ELSE AndThen(BaseRelocationBlockHeaderRead(data_ptr, wraps), LAMBDA x :
             RelocationsLoop(x.c, Append(relocations, x.res.val), wraps))

\* <BaseRelocationDataDitectory as ParseSectionData>::parse
BaseRelocationParse(section_data, wraps) ==
    RelocationsLoop(SliceCursor(section_data), <<>>, wraps).res

-----------------------------------------------------------------------------
(* src/pe/sections/certificate.rs *)

\* CertificateRevision::from_u16, CertificateType::from_u16: [tag, n] with
\* n the raw value of Other(n)
CertificateRevision_from_u16(val) ==
    CASE val = 1 -> [tag |-> "Revision1_0", n |-> 0]
      [] val = 2 -> [tag |-> "Revision2_0", n |-> 0]
      [] OTHER -> [tag |-> "Other", n |-> val]

CertificateType_from_u16(val) ==
    CASE val = 1 -> [tag |-> "X509", n |-> 0]
      [] val = 2 -> [tag |-> "PkcsSignedData", n |-> 0]
      [] val = 3 -> [tag |-> "Reserved1", n |-> 0]
      [] val = 4 -> [tag |-> "TsStackSigned", n |-> 0]
      [] OTHER -> [tag |-> "Other", n |-> val]

\* <Certificate as ReadData>::read; length.saturating_sub(4) bytes follow
\* the length
CertificateRead(reader) ==
    AndThen(ReadSlice(reader, 4), LAMBDA length :
    AndThen(ReadSlice(length.c, Max(FromLe32(length.res.val) - 4, 0)),
            LAMBDA cert_data :
    AndThen(ReadSlice(SliceCursor(cert_data.res.val), 2), LAMBDA revision :
    AndThen(ReadSlice(revision.c, 2), LAMBDA certificate_type :
        [c |-> cert_data.c,
         res |-> Ok([length |-> FromLe32(length.res.val),
                     revision |-> CertificateRevision_from_u16(
                                      FromLe16(revision.res.val)),
                     certificate_type |-> CertificateType_from_u16(
                                      FromLe16(certificate_type.res.val)),
                     certificate |-> Drop(cert_data.res.val, 4)])]))))

\* (offset + 7) & !7
AlignCertificate(offset) == (offset + 7) - ((offset + 7) % 8)

\* the loop of CertificateDataDirectory::parse; &section_data[offset..]
\* panics for an offset behind the end of the slice
RECURSIVE CertificatesLoop(_, _, _)
CertificatesLoop(section_data, offset, certificates) ==
    IF offset > Len(section_data)
    THEN [c |-> SliceCursor(section_data), res |-> Panic]
    ELSE AndThen(CertificateRead(SliceCursor(Drop(section_data, offset))),
                 LAMBDA cert :
             IF AlignCertificate(offset + cert.res.val.length) = Len(section_data)
             THEN [c |-> cert.c, res |-> Ok(Append(certificates, cert.res.val))]
             ELSE CertificatesLoop(section_data,
                                   AlignCertificate(offset + cert.res.val.length),
                                   Append(certificates, cert.res.val)))

\* CertificateDataDirectory::parse
CertificateParse(section_data) == CertificatesLoop(section_data, 0, <<>>).res

-----------------------------------------------------------------------------
(* src/pe/sections/idata.rs *)

\* String::from_utf8_lossy as code points: ASCII is kept, a byte outside
\* it becomes U+FFFD
from_utf8_lossy(bytes) ==
    [i \in 1..Len(bytes) |-> IF bytes[i] < 128 THEN bytes[i] ELSE 65533]

\* data.iter().position(|c| *c == 0) from index i on
RECURSIVE PositionNul(_, _)
PositionNul(data, i) ==
    IF i > Len(data) THEN None
    ELSE IF data[i] = 0 THEN Some(i - 1)
    ELSE PositionNul(data, i + 1)

\* &data[..data.iter().position(|c| *c == 0).unwrap_or(0)] as a String
NulString(data) == from_utf8_lossy(Take(data, unwrap_or(PositionNul(data, 1), 0)))

\* Sections::find_rva_data: the data of the section that holds the address,
\* from the address on; address 0 never resolves.  A section is
\* [row, data], the data as long as the virtual_size of its row
RECURSIVE SectionsFind(_, _, _)
SectionsFind(sections, rva, i) ==
    IF i > Len(sections) THEN None
    ELSE IF RowContains(sections[i].row, rva)
    THEN Some(Drop(sections[i].data, rva - sections[i].row.virtual_address))
    ELSE SectionsFind(sections, rva, i + 1)

SectionsFindRvaData(sections, rva) ==
    IF rva = 0 THEN None ELSE SectionsFind(sections, rva, 1)

\* val & !0x80000000 on a 32-bit pattern
ClearTopBit(val) == IF val < 0 THEN (val + 1073741824) + 1073741824 ELSE val

\* the rows of the lookup table: one shape for both variants
Ordinal(n) ==
    [tag |-> "Ordinal", ordinal |-> n, hint |-> 0, name_rva |-> 0, name |-> <<>>]
HintName(hint, name_rva, name) ==
    [tag |-> "HintName", ordinal |-> 0, hint |-> hint, name_rva |-> name_rva,
     name |-> name]

\* ImportTableRow::from_lower_bits with the ordinal taken from the low 8 bits
from_lower_bits_u8(sections, import_by_ordinal, rest_of_fields) ==
    IF import_by_ordinal THEN Ok(Ordinal(ClearTopBit(rest_of_fields) % 256))
    ELSE IF SectionsFindRvaData(sections, ClearTopBit(rest_of_fields)) = None
    THEN invalid_image_format
    ELSE AndThen(ReadSlice(SliceCursor(SectionsFindRvaData(
                               sections, ClearTopBit(rest_of_fields))[1]), 2),
                 LAMBDA hint :
             [c |-> hint.c,
              res |-> Ok(HintName(FromLe16(hint.res.val),
                                  ClearTopBit(rest_of_fields),
                                  NulString(Drop(hint.c.buf, hint.c.pos))))]).res

\* ImportTableRow::from_lower_bits; rest_of_fields is a 32-bit pattern
from_lower_bits(sections, import_by_ordinal, rest_of_fields) ==
    IF import_by_ordinal THEN Ok(Ordinal(ClearTopBit(rest_of_fields) % 65536))
    ELSE IF SectionsFindRvaData(sections, ClearTopBit(rest_of_fields)) = None
    THEN invalid_image_format
    ELSE AndThen(ReadSlice(SliceCursor(SectionsFindRvaData(
                               sections, ClearTopBit(rest_of_fields))[1]), 2),
                 LAMBDA hint :
             [c |-> hint.c,
              res |-> Ok(HintName(FromLe16(hint.res.val),
                                  ClearTopBit(rest_of_fields),
                                  NulString(Drop(hint.c.buf, hint.c.pos))))]).res

\* Result::map(Some)
MapSome(r) == IF IsOk(r) THEN Ok(Some(r.val)) ELSE r

\* ImportTableRow::from_u32; val is a 32-bit pattern
from_u32(sections, val) ==
    IF val = 0 THEN Ok(None)
    ELSE MapSome(from_lower_bits(sections, val < 0, ClearTopBit(val)))

\* ImportTableRow::from_u64; val is <<low, high>>, two 32-bit patterns, and
\* (val & !mask) as u32 is the low one
from_u64(sections, val) ==
    IF val = <<0, 0>> THEN Ok(None)
    ELSE MapSome(from_lower_bits(sections, val[2] < 0, val[1]))

\* the match on magic of ImportTableDataDirectoryEntry::parse
LookupEntry(sections, magic, lookup_table_data_ptr) ==
    IF magic = "PE32"
    THEN AndThen(ReadSlice(lookup_table_data_ptr, 4), LAMBDA val :
             [c |-> val.c, res |-> from_u32(sections, U32Bits(val.res.val))])
    ELSE AndThen(ReadSlice(lookup_table_data_ptr, 8), LAMBDA val :
             [c |-> val.c,
              res |-> from_u64(sections, <<U32Bits(SubSeq(val.res.val, 1, 4)),
                                           U32Bits(SubSeq(val.res.val, 5, 8))>>)])

\* the loop over the import lookup table
RECURSIVE LookupLoop(_, _, _, _)
LookupLoop(sections, magic, lookup_table_data_ptr, lookup_items) ==
    AndThen(LookupEntry(sections, magic, lookup_table_data_ptr),
            LAMBDA lookup_entry :
        IF lookup_entry.res.val = None
        THEN [c |-> lookup_entry.c, res |-> Ok(lookup_items)]
        ELSE LookupLoop(sections, magic, lookup_entry.c,
                        Append(lookup_items, lookup_entry.res.val[1])))

\* the dll_name block and the Ok(Self { .. }) of the entry
ImportEntryNamed(import_directory_table, sections, import_lookup_table) ==
    IF ~IsOk(import_lookup_table) THEN import_lookup_table
    ELSE IF SectionsFindRvaData(sections, import_directory_table.name_rva) = None
    THEN invalid_image_format
    ELSE Ok([import_directory_table |-> import_directory_table,
             dll_name |-> NulString(SectionsFindRvaData(
                              sections, import_directory_table.name_rva)[1]),
             import_lookup_table |-> import_lookup_table.val])

\* ImportTableDataDirectoryEntry::parse
ImportEntryParse(import_directory_table, sections, magic) ==
    IF SectionsFindRvaData(sections,
                           import_directory_table.import_lookup_table_rva) = None
    THEN invalid_image_format
    ELSE ImportEntryNamed(import_directory_table, sections,
             LookupLoop(sections, magic,
                        SliceCursor(SectionsFindRvaData(sections,
                            import_directory_table.import_lookup_table_rva)[1]),
                        <<>>).res)

ImportDirectoryTableLayout ==
    <<F("import_lookup_table_rva", "u32"), F("time_date_stamp", "u32"),
      F("fowarder_chain", "u32"), F("name_rva", "u32"),
      F("import_address_table_rva", "u32")>>

\* ImportDirectoryTable::is_null: self == &ImportDirectoryTable::default()
ImportDirectoryTable_is_null(dir) ==
    \A i \in 1..Len(ImportDirectoryTableLayout) :
        dir[ImportDirectoryTableLayout[i].f] = 0

\* the loop of ImportTableDataDirectory::parse
RECURSIVE ImportDirectoryLoop(_, _, _, _)
ImportDirectoryLoop(import_lookup_table_ptr, sections, magic, tables) ==
    AndThen(ReadStruct(import_lookup_table_ptr, ImportDirectoryTableLayout),
            LAMBDA dir :
        IF ImportDirectoryTable_is_null(dir.res.val)
        THEN [c |-> dir.c, res |-> Ok(tables)]
        ELSE AndThen([c |-> dir.c,
                      res |-> ImportEntryParse(dir.res.val, sections, magic)],
                     LAMBDA entry :
                 ImportDirectoryLoop(entry.c, sections, magic,
                                     Append(tables, entry.res.val))))

\* <ImportTableDataDirectory as ParseSectionData>::parse
ImportTableParse(section_data, sections, magic) ==
    ImportDirectoryLoop(SliceCursor(section_data), sections, magic, <<>>).res

-----------------------------------------------------------------------------
(* src/pe/sections/edata.rs *)

ExportDirectoryLayout ==
    <<F("export_flags", "u32"), F("time_date_stamp", "u32"),
      F("major_version", "u16"), F("minor_version", "u16"),
      F("name_rva", "u32"), F("ordinal_base", "u32"),
      F("address_table_entries", "u32"), F("number_of_name_pointers", "u32"),
      F("export_address_table", "u32"), F("name_pointer_rva", "u32"),
      F("ordinal_table_rva", "u32")>>

ExportAddressLayout == <<F("export_rva", "u32"), F("forwarder_rva", "u32")>>

\* ExportNamePointer(pub u32) and ExportOrtinal(pub u16): v0 is the field .0
ExportNamePointerLayout == <<F("v0", "u32")>>
ExportOrtinalLayout == <<F("v0", "u16")>>

\* Table::<T>::new_linear for an item type given by its layout (a Vec made
\* with_capacity(n) of these types has capacity n)
RECURSIVE NewLinearOf(_, _, _, _)
NewLinearOf(data_ptr, layout, items_count, items) ==
    IF items_count = 0
    THEN [c |-> data_ptr, res |-> Ok(items)]
    ELSE AndThen(ReadStruct(data_ptr, layout), LAMBDA x :
             NewLinearOf(x.c, layout, items_count - 1, Append(items, x.res.val)))

\* the loop that fills export_name_table: offset += null_term_pos
RECURSIVE ExportNameLoop(_, _, _, _)
ExportNameLoop(export_name_data, names, offset, values) ==
    IF names = 0 THEN values
    ELSE ExportNameLoop(export_name_data, names - 1,
             offset + unwrap_or(PositionNul(Drop(export_name_data, offset), 1), 0),
             Append(values, NulString(Drop(export_name_data, offset))))

\* find_rva_data(..).ok_or_else(|| invalid_image_format(..))? as a step of
\* a chain: the bytes, InvalidImageFormat, or the panic of the lookup
Resolve(sections, file_bytes, rva) ==
    [c |-> SliceCursor(file_bytes),
     res |-> IF IsPanic(find_rva_data(sections, file_bytes, rva)) THEN Panic
             ELSE IF find_rva_data(sections, file_bytes, rva).val = None
             THEN invalid_image_format
             ELSE Ok(SliceData(file_bytes,
                               find_rva_data(sections, file_bytes, rva).val[1]))]

\* the Ok(Self { .. }) of parse: the three tables read one after the other
ExportTables(dir, address_data, name_pointer_data, ordinal_data, export_name_data) ==
    AndThen(NewLinearOf(SliceCursor(address_data), ExportAddressLayout,
                        dir.address_table_entries, <<>>),
            LAMBDA export_address_table :
    AndThen(NewLinearOf(SliceCursor(name_pointer_data), ExportNamePointerLayout,
                        dir.number_of_name_pointers, <<>>),
            LAMBDA name_pointer_table :
    AndThen(NewLinearOf(SliceCursor(ordinal_data), ExportOrtinalLayout,
                        dir.number_of_name_pointers, <<>>),
            LAMBDA export_ordinal_table :
        [c |-> export_ordinal_table.c,
         res |-> Ok([export_directory_table |-> dir,
                     export_address_table |-> export_address_table.res.val,
                     name_pointer_table |-> name_pointer_table.res.val,
                     export_ordinal_table |-> export_ordinal_table.res.val,
                     export_name_table |->
                         ExportNameLoop(export_name_data,
                                        dir.number_of_name_pointers, 0, <<>>)])])))

\* ExportTableDataDirectory::parse: the data of all three tables is looked
\* up at export_directory_table.export_address_table
ExportParse(file_bytes, section_base, sections) ==
    AndThen(ReadStruct(SliceCursor(section_base), ExportDirectoryLayout),
            LAMBDA dir :
    AndThen(Resolve(sections, file_bytes, dir.res.val.export_address_table),
            LAMBDA export_address_table_data :
    AndThen(Resolve(sections, file_bytes, dir.res.val.export_address_table),
            LAMBDA name_pointer_table_data :
    AndThen(Resolve(sections, file_bytes, dir.res.val.export_address_table),
            LAMBDA export_ordinal_table_data :
    AndThen(Resolve(sections, file_bytes, dir.res.val.name_rva),
            LAMBDA export_name_data :
        ExportTables(dir.res.val, export_address_table_data.res.val,
                     name_pointer_table_data.res.val,
                     export_ordinal_table_data.res.val,
                     export_name_data.res.val)))))).res

-----------------------------------------------------------------------------
(* The special-section decoders as a state machine: a directory is made    *)
(* of what it is to hold, laid out as bytes, and decoded.                  *)

\* a base relocation block is [base_rva, block_size, words]: the size its
\* header declares and the 16-bit entries behind the header
RelocWords ==
    {<<>>, <<\h3123>>, <<\h3123, \hAFFF>>, <<\hB001>>, <<\h3123, \hF000>>}

RelocBlocks ==
    {[base_rva |-> \h1000 * (1 + Len(words)), block_size |-> size, words |-> words] :
        words \in RelocWords, size \in {0, 7, 8, 9, 10, 12, 14}}

RelocBlockBytes(block) ==
    LeBytes32(block.base_rva) \o LeBytes32(block.block_size)
        \o Flatten([i \in 1..Len(block.words) |-> LeBytes16(block.words[i])])

\* a certificate record is [length, pad]: the length it declares, with
\* length - 4 bytes behind it, and whether it is padded to 8 bytes
CertRecords == {[length |-> l, pad |-> p] : l \in {8, 9, 12, 16}, p \in BOOLEAN}

CertRecordBytes(rec) ==
    LeBytes32(rec.length) \o Pattern(rec.length - 4)
        \o (IF rec.pad THEN Zeros(AlignCertificate(rec.length) - rec.length)
            ELSE <<>>)

\* what follows the last record of the directory
CertTails == {<<>>, LeBytes32(0), LeBytes32(4), Zeros(3)}

\* an entry of an import lookup table is its four 16-bit words, lowest
\* first; a PE32 table holds the first two of them
LookupEntries ==
    {<<\h0102, \h8000, 0, \h8000>>, <<\h1234, \h8003, 7, \h8000>>,
     <<\h1000, 0, 0, 0>>, <<\h1000, \h8000, 0, 0>>, <<\h1000, 0, 1, 0>>,
     <<\h5000, 0, 0, 0>>, <<0, 0, 1, 0>>}

LookupEntryBytes(entry, magic) ==
    Flatten([i \in 1..(IF magic = "PE32" THEN 2 ELSE 4) |-> LeBytes16(entry[i])])

\* the lookup table: its entries, and the zero entry when it is terminated
LookupTableBytes(entries, terminated, magic) ==
    Flatten([i \in 1..Len(entries) |-> LookupEntryBytes(entries[i], magic)])
        \o (IF terminated THEN Zeros(IF magic = "PE32" THEN 4 ELSE 8) ELSE <<>>)

\* the hint/name entry (hint 7, name "ab") and the name of the DLL ("k")
HintNameBytes == LeBytes16(7) \o <<97, 98, 0>>
DllNameBytes == <<107, 0>>

\* the one section of the image, at 0x1000: the hint/name entry, the DLL
\* name and, last, the lookup table
IdataSection(entries, terminated, magic) ==
    [row |-> [virtual_address |-> \h1000,
              virtual_size |-> Len(HintNameBytes \o DllNameBytes
                                   \o LookupTableBytes(entries, terminated, magic))],
     data |-> HintNameBytes \o DllNameBytes
                  \o LookupTableBytes(entries, terminated, magic)]

\* row i of the import directory
ImportRow(i) ==
    [import_lookup_table_rva |-> \h1000 + Len(HintNameBytes \o DllNameBytes),
     time_date_stamp |-> i, fowarder_chain |-> 0,
     name_rva |-> \h1000 + Len(HintNameBytes),
     import_address_table_rva |-> \h2000]

ImportRowBytes(row) ==
    Flatten([i \in 1..Len(ImportDirectoryTableLayout) |->
                LeBytes32(row[ImportDirectoryTableLayout[i].f])])

\* what follows the last row of the directory: the null row, nothing, or
\* half a row
ImportTails == {Zeros(20), <<>>, Zeros(10)}

\* the export tables of an image with na exported addresses and nn names:
\* address i, name pointer i, ordinal i and name i
ExportAddressOf(i) == [export_rva |-> \h2000 + i, forwarder_rva |-> 0]
ExportNameOf(i) == [j \in 1..i |-> 101 + i]
ExportNameData(nn) == Flatten([i \in 1..nn |-> ExportNameOf(i) \o <<0>>])
ExportNameRva(na, nn, i) ==
    \h1000 + 8 * na + 6 * nn + Len(ExportNameData(i - 1))
ExportOrdinalOf(i) == 16 + i

\* the file is the one section of the image, at 0x1000: the address table,
\* the name pointer table, the ordinal table, the names and one more byte
ExportFile(na, nn) ==
    Flatten([i \in 1..na |-> LeBytes32(ExportAddressOf(i).export_rva)
                                 \o LeBytes32(ExportAddressOf(i).forwarder_rva)])
        \o Flatten([i \in 1..nn |-> LeBytes32(ExportNameRva(na, nn, i))])
        \o Flatten([i \in 1..nn |-> LeBytes16(ExportOrdinalOf(i))])
        \o ExportNameData(nn) \o <<0>>

ExportSections(na, nn) ==
    <<[virtual_address |-> \h1000, virtual_size |-> Len(ExportFile(na, nn)),
       pointer_to_raw_data |-> 0, size_of_raw_data |-> Len(ExportFile(na, nn))]>>

ExportDirectoryOf(na, nn) ==
    [export_flags |-> 0, time_date_stamp |-> 1, major_version |-> 2,
     minor_version |-> 3, name_rva |-> ExportNameRva(na, nn, 1),
     ordinal_base |-> 1, address_table_entries |-> na,
     number_of_name_pointers |-> nn, export_address_table |-> \h1000,
     name_pointer_rva |-> \h1000 + 8 * na,
     ordinal_table_rva |-> \h1000 + 8 * na + 4 * nn]

ExportDirectoryBytes(dir) ==
    Flatten([i \in 1..Len(ExportDirectoryLayout) |->
                IF ExportDirectoryLayout[i].ty = "u16"
                THEN LeBytes16(dir[ExportDirectoryLayout[i].f])
                ELSE LeBytes32(dir[ExportDirectoryLayout[i].f])])

SecIdle == secKind = "idle" /\ secWraps = FALSE /\ secIn = <<>> /\ secOut = Pending

SecInit ==
    /\ secWraps \in BOOLEAN
    /\ secOut = Pending
    /\ \/ /\ secKind = "reloc"
          /\ \E blocks \in SeqsUpTo(RelocBlocks, MaxBlocks) :
                secIn = [made |-> blocks, tail |-> <<>>, image |-> <<>>, magic |-> "PE32",
                         data |-> Flatten([i \in 1..Len(blocks) |->
                                              RelocBlockBytes(blocks[i])])]
       \/ /\ secKind = "cert"
          /\ \E records \in SeqsUpTo(CertRecords, MaxCerts), tail \in CertTails :
                secIn = [made |-> records, tail |-> tail, image |-> <<>>, magic |-> "PE32",
                         data |-> Flatten([i \in 1..Len(records) |->
                                              CertRecordBytes(records[i])]) \o tail]
       \/ /\ secKind = "idata"
          /\ \E entries \in SeqsUpTo(LookupEntries, MaxEntries),
                terminated \in BOOLEAN, dlls \in 0..MaxDlls,
                tail \in ImportTails, magic \in {"PE32", "PE32Plus"} :
                secIn = [made |-> [entries |-> entries, terminated |-> terminated,
                                   dlls |-> dlls],
                         tail |-> tail,
                         image |-> <<IdataSection(entries, terminated, magic)>>,
                         magic |-> magic,
                         data |-> Flatten([i \in 1..dlls |->
                                              ImportRowBytes(ImportRow(i))]) \o tail]
       \/ /\ secKind = "edata"
          /\ \E na \in 0..MaxExports, nn \in 0..MaxExports, cut \in {0, 20} :
                secIn = [made |-> [addresses |-> na, names |-> nn, cut |-> cut],
                         tail |-> <<>>,
                         image |-> [file_bytes |-> ExportFile(na, nn),
                                    sections |-> ExportSections(na, nn)],
                         magic |-> "PE32",
                         data |-> Drop(ExportDirectoryBytes(ExportDirectoryOf(na, nn)),
                                       cut)]

\* BaseRelocationDataDitectory::parse(section_data, ..)
ParseBaseRelocations ==
    /\ secKind = "reloc" /\ secOut = Pending
    /\ secOut' = BaseRelocationParse(secIn.data, secWraps)
    /\ UNCHANGED <<secKind, secWraps, secIn>>
    /\ UNCHANGED notSecVars

\* CertificateDataDirectory::parse(section_data)
ParseCertificates ==
    /\ secKind = "cert" /\ secOut = Pending
    /\ secOut' = CertificateParse(secIn.data)
    /\ UNCHANGED <<secKind, secWraps, secIn>>
    /\ UNCHANGED notSecVars

\* ImportTableDataDirectory::parse(section_data, sections, optional_header, ..)
ParseImports ==
    /\ secKind = "idata" /\ secOut = Pending
    /\ secOut' = ImportTableParse(secIn.data, secIn.image, secIn.magic)
    /\ UNCHANGED <<secKind, secWraps, secIn>>
    /\ UNCHANGED notSecVars

\* ExportTableDataDirectory::parse(file_bytes, section_base, sections)
ParseExports ==
    /\ secKind = "edata" /\ secOut = Pending
    /\ secOut' = ExportParse(secIn.image.file_bytes, secIn.data, secIn.image.sections)
    /\ UNCHANGED <<secKind, secWraps, secIn>>
    /\ UNCHANGED notSecVars

SecNext ==
    \/ ParseBaseRelocations
    \/ ParseCertificates
    \/ ParseImports
    \/ ParseExports

-----------------------------------------------------------------------------
\* one specification per component; the other components stay idle
InitIo == HdrIdle /\ RvaIdle /\ PfIdle /\ BdIdle /\ SdIdle /\ SecIdle /\ IoInit
InitHdr == IoIdle /\ RvaIdle /\ PfIdle /\ BdIdle /\ SdIdle /\ SecIdle /\ HdrInit
InitRva == IoIdle /\ HdrIdle /\ PfIdle /\ BdIdle /\ SdIdle /\ SecIdle /\ RvaInit
InitPf == IoIdle /\ HdrIdle /\ RvaIdle /\ BdIdle /\ SdIdle /\ SecIdle /\ PfInit
InitBd == IoIdle /\ HdrIdle /\ RvaIdle /\ PfIdle /\ SdIdle /\ SecIdle /\ BdInit
InitSd == IoIdle /\ HdrIdle /\ RvaIdle /\ PfIdle /\ BdIdle /\ SecIdle /\ SdInit
InitSec == IoIdle /\ HdrIdle /\ RvaIdle /\ PfIdle /\ BdIdle /\ SdIdle /\ SecInit

SpecIo == InitIo /\ [][IoNext]_vars
SpecHdr == InitHdr /\ [][HdrNext]_vars
SpecRva == InitRva /\ [][RvaNext]_vars
SpecPf == InitPf /\ [][PfNext]_vars
SpecBd == InitBd /\ [][BdNext]_vars
SpecSd == InitSd /\ [][SdNext]_vars
SpecSec == InitSec /\ [][SecNext]_vars

-----------------------------------------------------------------------------
(* Claims about the io component, checked under SpecIo *)

\* bytes left to read or to fill before the last call, for a cursor that
\* was inside its buffer
IoPreRemaining == Len(ioLast.preBuf) - ioLast.prePos

\* C7: read_slice(n) on a read cursor (&[u8] and PEStream) with r bytes
\* remaining returns exactly the next n bytes and advances the cursor by n
\* when n <= r, fails with NotEnoughDataLeft{attempted_read: n} when n > r,
\* and never returns fewer than n bytes.
C7_ReadSliceExact ==
    (ioKind \in ReaderKinds /\ ioLast.op = "read_slice"
        /\ ioLast.prePos <= Len(ioLast.preBuf))
    => /\ ioLast.size <= IoPreRemaining
          => /\ IsOk(ioLast.res)
             /\ ioLast.res.val = SubSeq(ioLast.preBuf, ioLast.prePos + 1,
                                        ioLast.prePos + ioLast.size)
             /\ ioPos = ioLast.prePos + ioLast.size
       /\ ioLast.size > IoPreRemaining
          => ioLast.res = not_enough_data(ioLast.size)
       /\ IsOk(ioLast.res) => Len(ioLast.res.val) = ioLast.size

\* a read that failed on a cursor an earlier read had advanced
C7_Witness ==
    /\ ioKind = "stream_reader" /\ ioLast.op = "read_slice"
    /\ ioLast.prePos > 0 /\ ioLast.prePos < Len(ioLast.preBuf)
    /\ ioMoved = 0
    /\ IsErr(ioLast.res)

\* C8: write_slice(d) on a bounded sink (&mut [u8] and PEStream<&mut [u8]>)
\* with r bytes of space left copies d at the current position and advances
\* by |d| when |d| <= r, so the buffer prefix is the concatenation of the
\* slices written; when |d| > r it fails with
\* NotEnoughSpaceLeft{attempted_write: |d|} and writes nothing.
C8_WriteSliceBounded ==
    (ioKind \in BoundedWriterKinds /\ ioLast.op = "write_slice"
        /\ ioLast.prePos <= Len(ioLast.preBuf))
    => /\ Len(ioLast.data) <= IoPreRemaining
          => /\ IsOk(ioLast.res)
             /\ ioBuf = Take(ioLast.preBuf, ioLast.prePos) \o ioLast.data
                          \o Drop(ioLast.preBuf, ioLast.prePos + Len(ioLast.data))
             /\ ioPos = ioLast.prePos + Len(ioLast.data)
       /\ Len(ioLast.data) > IoPreRemaining
          => /\ ioLast.res = not_enough_space(Len(ioLast.data))
             /\ ioBuf = ioLast.preBuf
             /\ ioPos = ioLast.prePos
       /\ ioMoved = 0
          => /\ Len(ioLog) <= Len(ioBuf)
             /\ Take(ioBuf, Len(ioLog)) = ioLog
             /\ ioPos = Len(ioLog)

\* a write that was refused after two slices had been written
C8_Witness ==
    /\ ioKind \in BoundedWriterKinds /\ ioLast.op = "write_slice"
    /\ ioMoved = 0
    /\ IsErr(ioLast.res)
    /\ Len(ioLog) >= 2 /\ ioLog[1] # ioLog[2]
    /\ Len(ioLast.data) > 0

\* C9: starting from PEStream::new(Vec::new()) (and for a plain Vec<u8>)
\* every write_slice call succeeds and the buffer is the concatenation of
\* the slices written, in call order.
C9_GrowableConcat ==
    (ioKind \in GrowableKinds /\ ioMoved = 0)
    => /\ ioLast.op = "write_slice" => IsOk(ioLast.res)
       /\ ioBuf = ioLog

\* the part of C9 about the plain Vec<u8> writer alone
C9_VecWriterConcat ==
    (ioKind = "vec_writer")
    => /\ ioLast.op = "write_slice" => IsOk(ioLast.res)
       /\ ioBuf = ioLog

-----------------------------------------------------------------------------
(* Claims about the headers, checked under SpecHdr *)

\* the header was written into a sink that has exactly its size
HdrExactSink == hdrOut # NoOut /\ hdrOut.sink \in BoundedWriterKinds
                    /\ hdrOut.cap = HdrSize(hdrKind, hdrVal)

\* the bytes written were read back, all of them
HdrReadBack == hdrIn # NoIn /\ hdrIn.from = "written" /\ hdrIn.trunc = 0

\* the header is an OptionalHeader as C1 describes it
OptWellFormed ==
    /\ hdrKind = "opt"
    /\ hdrVal.standard_fields.magic = hdrVal.windows_specific_fields.variant
    /\ hdrVal.windows_specific_fields.fields.number_of_rva_and_sizes <= NumberOfDirectories
    /\ \A n \in DOMAIN hdrVal.data_directories :
          DirIndex(n) > hdrVal.windows_specific_fields.fields.number_of_rva_and_sizes
              => hdrVal.data_directories[n] = DirDefault
    /\ IsSome(hdrVal.standard_fields.base_of_data)
          <=> hdrVal.standard_fields.magic = "PE32"

\* C1: for every OptionalHeader whose magic matches its windows-specific
\* variant (PE32/PE32 and PE32+/PE32+), with number_of_rva_and_sizes = k,
\* 0 <= k <= 16, directories k..16 at the zero default and base_of_data
\* present exactly for PE32, write_to succeeds and reading the written bytes
\* yields a value equal to the original.
C1_OptRoundTrip ==
    (OptWellFormed /\ hdrOut # NoOut
        /\ (hdrOut.sink = "vec_writer" \/ HdrExactSink))
    => /\ IsOk(hdrOut.res)
       /\ HdrReadBack => hdrIn.res = Ok(hdrVal)

\* the part of C1 the code keeps: the PE32 header whose subsystem is not an
\* Other(n) spelling of a named subsystem
C1_Pe32RoundTrip ==
    (OptWellFormed /\ hdrOut # NoOut
        /\ (hdrOut.sink = "vec_writer" \/ HdrExactSink)
        /\ hdrVal.standard_fields.magic = "PE32"
        /\ Subsystem_from_u16(Subsystem_to_u16(hdrVal.windows_specific_fields.fields.subsystem))
              = hdrVal.windows_specific_fields.fields.subsystem)
    => /\ IsOk(hdrOut.res)
       /\ HdrReadBack => hdrIn.res = Ok(hdrVal)

\* C10 as stated: for every ImageDosHeader, CoffFileHeader (every
\* ImageFileMachine value including Other(n) for any 16-bit n, and any
\* characteristics bits), SectionTableRow and ImageDataDirectory value H,
\* writing H into a buffer of its fixed size and reading it back yields a
\* value equal to H.
C10_FixedRoundTripAnyOther ==
    (hdrKind \in FixedKinds /\ HdrExactSink)
    => /\ IsOk(hdrOut.res)
       /\ HdrReadBack => hdrIn.res = Ok(hdrVal)

\* the machine of a CoffFileHeader is a named variant or Other(n) with n
\* not the code of a named variant
MachineCanonical(m) == m.tag = "Other" => \A t \in MachineNames : MachineCode[t] # m.n

\* C10 amended: the same round trip for every ImageDosHeader, SectionTableRow,
\* ImageDataDirectory, and every CoffFileHeader whose machine is a named
\* variant or Other(n) for a 16-bit n that is not the code of a named
\* variant; the write fills the buffer exactly and the read consumes it all.
C10_FixedRoundTrip ==
    (hdrKind \in FixedKinds /\ HdrExactSink
        /\ (hdrKind = "coff" => MachineCanonical(hdrVal.machine)))
    => /\ IsOk(hdrOut.res)
       /\ hdrOut.c.pos = HdrSize(hdrKind, hdrVal)
       /\ HdrReadBack => /\ hdrIn.res = Ok(hdrVal)
                         /\ hdrIn.c.pos = HdrSize(hdrKind, hdrVal)

\* a CoffFileHeader with machine Other(0xABCD) came back equal from a
\* buffer of 20 bytes
C10_Witness ==
    /\ hdrKind = "coff" /\ HdrExactSink /\ HdrReadBack
    /\ hdrVal.machine = MachineOther(\hABCD)
    /\ hdrIn.res = Ok(hdrVal)

\* C11: OptionalHeader write_to returns InvalidImageFormat whenever
\* standard_fields.magic and the windows_specific_fields variant disagree,
\* in both directions (PE32 magic with a PE32+ payload, PE32+ magic with a
\* PE32 payload); the mismatched payload is never written: nothing follows
\* the standard fields in the sink.
C11_MismatchRejected ==
    (hdrKind = "opt" /\ hdrOut # NoOut
        /\ hdrVal.standard_fields.magic # hdrVal.windows_specific_fields.variant)
    => /\ hdrOut.res = invalid_image_format
       /\ Len(HdrWritten) = HdrSize("std", hdrVal.standard_fields)

\* the direction of C11 the code keeps: PE32 magic with a PE32+ payload
C11_Pe32MagicMismatchRejected ==
    (hdrKind = "opt" /\ hdrOut # NoOut
        /\ hdrVal.standard_fields.magic = "PE32"
        /\ hdrVal.windows_specific_fields.variant = "PE32Plus")
    => /\ hdrOut.res = invalid_image_format
       /\ Len(HdrWritten) = HdrSize("std", hdrVal.standard_fields)

\* an optional header was read from a buffer that holds it as the format
\* lays it out, with k <= 16 directories
OptParsed ==
    /\ hdrKind = "opt" /\ hdrIn.from = "image"
    /\ hdrVal.windows_specific_fields.fields.number_of_rva_and_sizes
          <= NumberOfDirectories

\* where the directories start in the buffer read
OptDirsOffset ==
    IF hdrVal.standard_fields.magic = "PE32"
    THEN StdSizePe + WinSizePe ELSE StdSizePePlus + WinSizePePlus

\* C12: reading an optional header whose number_of_rva_and_sizes is k
\* (0 <= k <= 16) consumes exactly 8*k bytes after the windows-specific
\* fields, assigns them to the first k directories in canonical order and
\* leaves directories k..16 at (0, 0); the bytes consumed equal
\* OptionalHeader::size() of the result (96 + 8k for PE32, 112 + 8k for
\* PE32+).
C12_DirectoryCount ==
    OptParsed
    => /\ IsOk(hdrIn.res)
       /\ hdrIn.c.pos = OptSize(hdrIn.res.val)
       /\ hdrIn.c.pos
            = (IF hdrVal.standard_fields.magic = "PE32" THEN 96 ELSE 112)
                + 8 * hdrVal.windows_specific_fields.fields.number_of_rva_and_sizes
       /\ hdrIn.c.pos - OptDirsOffset
            = 8 * hdrIn.res.val.windows_specific_fields.fields.number_of_rva_and_sizes
       /\ \A i \in 1..NumberOfDirectories :
            hdrIn.res.val.data_directories[ALL_DATA_DIRECTORIES[i]]
              = IF i <= hdrVal.windows_specific_fields.fields.number_of_rva_and_sizes
                THEN [virtual_address |->
                         FromLe32(SubSeq(hdrIn.c.buf, OptDirsOffset + 8 * i - 7,
                                         OptDirsOffset + 8 * i - 4)),
                      size |->
                         FromLe32(SubSeq(hdrIn.c.buf, OptDirsOffset + 8 * i - 3,
                                         OptDirsOffset + 8 * i))]
                ELSE DirDefault
       /\ hdrIn.res.val.data_directories.export_table
            = IF hdrVal.windows_specific_fields.fields.number_of_rva_and_sizes >= 1
              THEN hdrVal.data_directories.export_table ELSE DirDefault

\* a PE32+ header with 2 directories was read from a buffer with 3 more
\* bytes behind it, and 128 bytes were consumed
C12_Witness ==
    /\ OptParsed /\ IsOk(hdrIn.res)
    /\ hdrVal.standard_fields.magic = "PE32Plus"
    /\ hdrVal.windows_specific_fields.fields.number_of_rva_and_sizes = 2
    /\ Len(hdrIn.c.buf) = 131 /\ hdrIn.c.pos = 128
    /\ hdrIn.res.val.data_directories.import_table = hdrVal.data_directories.import_table
    /\ hdrIn.res.val.data_directories.resource_table = DirDefault

\* C13: reading each fixed-size structure from a buffer of exactly its
\* declared size succeeds and leaves zero bytes unread: DOS header 64, COFF
\* header 20, section table row 40, ImageDataDirectory 8, standard fields
\* 28 (PE32) / 24 (PE32+), windows-specific fields 68 (PE32) / 88 (PE32+);
\* writing each emits the same number of bytes.
C13_SizeInvariants ==
    (hdrKind \in FixedKinds \cup PartKinds /\ hdrOut # NoOut
        /\ (hdrOut.sink = "vec_writer" \/ HdrExactSink))
    => /\ IsOk(hdrOut.res)
       /\ Len(HdrWritten) = HdrSize(hdrKind, hdrVal)
       /\ HdrSize(hdrKind, hdrVal)
            = (CASE hdrKind = "dos" -> 64
                 [] hdrKind = "coff" -> 20
                 [] hdrKind = "row" -> 40
                 [] hdrKind = "dir" -> 8
                 [] hdrKind = "std" -> IF hdrVal.magic = "PE32" THEN 28 ELSE 24
                 [] hdrKind = "win_pe32" -> 68
                 [] hdrKind = "win_pe32_plus" -> 88)
       /\ HdrReadBack
            => /\ IsOk(hdrIn.res)
               /\ Len(hdrIn.c.buf) = HdrSize(hdrKind, hdrVal)
               /\ hdrIn.c.pos = Len(hdrIn.c.buf)

\* the standard fields of a PE32+ header were read from the 24 bytes
\* written, all of them
C13_Witness ==
    /\ hdrKind = "std" /\ hdrVal.magic = "PE32Plus"
    /\ hdrOut # NoOut /\ IsOk(hdrOut.res) /\ HdrReadBack
    /\ IsOk(hdrIn.res)
    /\ Len(hdrIn.c.buf) = 24 /\ hdrIn.c.pos = 24

-----------------------------------------------------------------------------
(* Claims about the lookups, checked under SpecRva *)

\* the rows of the table whose half-open range contains the address looked up
RvaHits ==
    {i \in 1..Len(rvaTable) :
        /\ rvaTable[i].virtual_address <= rvaLast.virtual_address
        /\ rvaLast.virtual_address
              < rvaTable[i].virtual_address + rvaTable[i].virtual_size}

\* no address lies in the ranges of two rows
RvaDisjoint ==
    \A i, j \in 1..Len(rvaTable) :
        i # j => \/ rvaTable[i].virtual_size = 0
                 \/ rvaTable[j].virtual_size = 0
                 \/ rvaTable[i].virtual_address + rvaTable[i].virtual_size
                       <= rvaTable[j].virtual_address
                 \/ rvaTable[j].virtual_address + rvaTable[j].virtual_size
                       <= rvaTable[i].virtual_address

\* C4: find_rva(a) returns the first row in table order whose half-open
\* range [virtual_address, virtual_address + virtual_size) contains a, None
\* when no row contains a, and None for a = 0 whatever the table holds;
\* hence when the ranges are pairwise disjoint every (nonzero) address
\* inside a section S's range resolves to S.
C4_FindRvaFirstMatch ==
    rvaLast.op = "find_rva"
    => /\ IsOk(rvaLast.res)
       /\ rvaLast.virtual_address = 0 => rvaLast.res.val = None
       /\ (rvaLast.virtual_address # 0 /\ RvaHits = {}) => rvaLast.res.val = None
       /\ (rvaLast.virtual_address # 0 /\ RvaHits # {})
            => \E i \in RvaHits : /\ rvaLast.res.val = Some(i)
                                  /\ \A j \in RvaHits : i <= j
       /\ (rvaLast.virtual_address # 0 /\ RvaDisjoint)
            => \A i \in RvaHits : rvaLast.res.val = Some(i)

\* an address inside the ranges of two different rows resolved to the
\* first of them
C4_Witness ==
    /\ rvaLast.op = "find_rva"
    /\ Cardinality(RvaHits) = 2
    /\ rvaTable[1] # rvaTable[2]
    /\ rvaLast.res.val = Some(1)

\* C6: find_rva_data / find_data_directory_data_map yields no data, an
\* error, or a slice lying entirely inside the file bytes; it never indexes
\* out of range.
C6_LookupNeverPanics ==
    rvaLast.op \in {"find_rva_data", "find_data_directory_data_map"}
    => /\ ~IsPanic(rvaLast.res)
       /\ (IsOk(rvaLast.res) /\ rvaLast.res.val # None)
            => /\ rvaLast.res.val[1].start <= rvaLast.res.val[1].end
               /\ rvaLast.res.val[1].end <= Len(rvaFile)

\* the rows whose 8-byte name equals the name looked up, cut to 8 bytes
\* and zero-padded to 8 bytes
NameHits ==
    {i \in 1..Len(rvaTable) :
        rvaTable[i].name = Take(rvaLast.name \o <<0, 0, 0, 0, 0, 0, 0, 0>>, 8)}

\* the first of them, if any
FirstNameHit ==
    IF NameHits = {} THEN None
    ELSE Some(CHOOSE i \in NameHits : \A j \in NameHits : i <= j)

\* C17 as stated: get_by_name(q) returns the first row whose 8-byte name
\* equals the bytes of q truncated to 8 bytes and zero-padded to 8 bytes; a
\* query longer than 8 bytes matches a row whose name equals the query's
\* first 8 bytes, and ".text" matches a row named ".text\0\0\0".
C17_GetByNameTruncates ==
    rvaLast.op = "get_by_name" => rvaLast.res = Ok(FirstNameHit)

\* C17 amended: for q of at most 8 bytes get_by_name(q) returns the first
\* row whose 8-byte name equals the bytes of q zero-padded to 8 bytes, and
\* None when no row has that name; for q longer than 8 bytes it returns
\* None.
C17_GetByName ==
    rvaLast.op = "get_by_name"
    => rvaLast.res = Ok(IF Len(rvaLast.name) > 8 THEN None ELSE FirstNameHit)

\* ".text" was looked up in a table with two different rows named
\* ".text\0\0\0" and the first of them was returned
C17_Witness ==
    /\ rvaLast.op = "get_by_name"
    /\ rvaLast.name = <<46, 116, 101, 120, 116>>
    /\ NameHits = {1, 2}
    /\ rvaTable[1] # rvaTable[2]
    /\ rvaLast.res = Ok(Some(1))

-----------------------------------------------------------------------------
(* Claims about PEFile, checked under SpecPf *)

\* the buffer is the one the first parse saw
PfFirstParse == pfParsed # Pending /\ pfPatched = NoPatch
PfNotEnoughData == IsErr(pfParsed) /\ pfParsed.err = "NotEnoughDataLeft"
PfInvalidFormat == IsErr(pfParsed) /\ pfParsed.err = "InvalidImageFormat"

\* the value of the e_lfanew field of the image
PfLfanew == ShapeDos(pfShape).e_lfanew

\* C5: parse_with_options fails with an error value, checking in this
\* order: fewer than 64 bytes for the DOS header -> NotEnoughDataLeft;
\* e_lfanew beyond the end of the buffer, or fewer than 4 bytes at e_lfanew
\* -> NotEnoughDataLeft; the 4 bytes at e_lfanew differ from "PE\0\0" ->
\* InvalidImageFormat; the COFF header, the optional header or the section
\* rows incomplete -> NotEnoughDataLeft.  The DOS e_magic value is never a
\* reason for failure: a complete image parses whatever e_magic is.
C5_ParseErrorOrder ==
    PfFirstParse
    => IF Len(pfData) < DosHeaderSize THEN PfNotEnoughData
       ELSE IF PfLfanew > Len(pfData)
       THEN pfParsed = not_enough_data(PfLfanew)
       ELSE IF Len(pfData) - PfLfanew < Len(SIGNATURE)
       THEN pfParsed = not_enough_data(Len(SIGNATURE))
       ELSE IF pfShape.corrupt = "signature" THEN PfInvalidFormat
       ELSE IF Len(pfData) < ShapeRowsEnd(pfShape) THEN PfNotEnoughData
       ELSE Len(pfData) = ShapeFull(pfShape)
               => /\ IsOk(pfParsed)
                  /\ pfParsed.val.dos_header = ShapeDos(pfShape)
                  /\ pfParsed.val.coff_header = ShapeCoff(pfShape)

\* an image with a damaged signature, cut inside its COFF header, was
\* refused for its signature
C5_Witness ==
    /\ PfFirstParse
    /\ pfShape.corrupt = "signature"
    /\ Len(pfData) > pfShape.e + Len(SIGNATURE)
    /\ Len(pfData) < pfShape.e + Len(SIGNATURE) + CoffHeaderSize
    /\ pfParsed = invalid_image_format

\* C2: for a buffer B that parses to a PEFile P (PE32 or PE32+), after
\* changing only header field values of P that change no header's size or
\* offset (or changing nothing, or zeroing one data directory), P.patch(B)
\* succeeds and re-parsing B yields a PEFile equal to P.
C2_PatchRoundTrip ==
    (IsOk(pfParsed) /\ pfPatched # NoPatch /\ pfPatched.short = 0)
    => /\ IsOk(pfPatched.res)
       /\ pfReparsed # Pending => pfReparsed = Ok(pfFile)

\* the part of C2 the code keeps: images without an optional header or
\* with a PE32 one
C2_Pe32PatchRoundTrip ==
    (IsOk(pfParsed) /\ pfPatched # NoPatch /\ pfPatched.short = 0
        /\ pfShape.opt # "PE32Plus")
    => /\ IsOk(pfPatched.res)
       /\ pfReparsed # Pending => pfReparsed = Ok(pfFile)

\* the size of the headers patch writes at e_lfanew: signature, COFF
\* header, optional header
PfHeadersSize ==
    Len(SIGNATURE) + CoffHeaderSize
        + (IF IsSome(pfFile.optional_header)
           THEN OptSize(pfFile.optional_header[1]) ELSE 0)

\* the positions (from 1) of the bytes patch may modify
PfFrame ==
    1..DosHeaderSize
        \cup (pfFile.dos_header.e_lfanew + 1)
                ..(pfFile.dos_header.e_lfanew + PfHeadersSize)

\* C14: patch(buffer) modifies only the bytes in [0, 64) and in
\* [e_lfanew, e_lfanew + 4 + 20 + optional-header size); every other byte,
\* the section table rows and the section data included, is left unchanged
\* and the length of the buffer is unchanged.
C14_PatchFrame ==
    pfPatched # NoPatch
    => /\ Len(pfData) = Len(pfPatched.before)
       /\ \A i \in 1..Len(pfData) :
            i \notin PfFrame => pfData[i] = pfPatched.before[i]

\* a file with sections had its time stamp changed and was patched: the
\* buffer changed, and nothing behind the headers did
C14_Witness ==
    /\ pfPatched # NoPatch /\ IsOk(pfPatched.res)
    /\ pfShape.nsec > 0 /\ pfEdit = "timestamp"
    /\ pfData # pfPatched.before
    /\ Len(pfData) = ShapeFull(pfShape)
    /\ Drop(pfData, pfShape.e + PfHeadersSize)
          = Drop(pfPatched.before, pfShape.e + PfHeadersSize)

\* C15: patch on a destination buffer too small to hold the headers at
\* their original offsets (a buffer shorter than e_lfanew, or shorter than
\* e_lfanew + 4 + 20 + optional-header size) returns a NotEnoughSpaceLeft
\* error value; it never panics.
C15_PatchTooSmall ==
    (pfPatched # NoPatch
        /\ Len(pfPatched.before) < pfFile.dos_header.e_lfanew + PfHeadersSize)
    => /\ IsErr(pfPatched.res)
       /\ pfPatched.res.err = "NotEnoughSpaceLeft"

\* the part of C15 the code keeps: a buffer that reaches e_lfanew or is
\* shorter than the DOS header, for a file with a PE32 optional header or none
C15_Pe32PatchTooSmall ==
    (pfPatched # NoPatch
        /\ Len(pfPatched.before) < pfFile.dos_header.e_lfanew + PfHeadersSize
        /\ (Len(pfPatched.before) >= pfFile.dos_header.e_lfanew
              \/ Len(pfPatched.before) < DosHeaderSize)
        /\ pfShape.opt # "PE32Plus")
    => /\ IsErr(pfPatched.res)
       /\ pfPatched.res.err = "NotEnoughSpaceLeft"

-----------------------------------------------------------------------------
(* Claims about PEImageDef, checked under SpecBd *)

\* the data directory of the parsed optional header that the caller set
BdParsedDir == bdParsed.val.optional_header[1].data_directories[bdDir.name]

\* C3: for a PEImageDef, built from empty or lifted with from_pe_file,
\* after new_section, add_data on the heap it returned and setting a data
\* directory to the address add_data returned and a size, write_file()
\* succeeds, PEFile::parse of its output succeeds, and the parsed optional
\* header has that data directory with the same address and size.
C3_BuilderRoundTrip ==
    bdOut # Pending
    => /\ IsOk(bdOut)
       /\ bdParsed # Pending
            => /\ IsOk(bdParsed)
               /\ IsSome(bdParsed.val.optional_header)
               /\ BdParsedDir = bdDir.dir

\* the part of C3 the code keeps: a PE32 optional header with a file and a
\* section alignment that are not 0, the signature behind the DOS header,
\* and a data directory other than the last one
C3_Pe32BuilderRoundTrip ==
    (bdOut # Pending /\ bdShape.opt # "PE32Plus" /\ bdShape.e >= DosHeaderSize
        /\ WinField(bdDef, "file_alignment") # 0 /\ bdDir.name # "reserved")
    => /\ IsOk(bdOut)
       /\ bdParsed # Pending
            => /\ IsOk(bdParsed)
               /\ IsSome(bdParsed.val.optional_header)
               /\ BdParsedDir = bdDir.dir

-----------------------------------------------------------------------------
(* The builder: where new_section puts a heap and what add_data does to it *)

\* the heap new_section returned, as it is now
NewHeap == bdDef.sections.other[bdNew]

\* the heaps the definition had when new_section was called, without those
\* that are not emitted
ExistingHeaps ==
    SelectSeq(bdDef.sections.text \o bdDef.sections.rdata \o bdDef.sections.data
                  \o bdDef.sections.pdata \o bdDef.sections.reloc
                  \o Take(bdDef.sections.other, bdNew - 1),
              LAMBDA heap : heap.virtual_address # 0)

\* C16: the heap new_section appends has a virtual_address that is a
\* non-zero multiple of 0x1000 and not below the end of any existing
\* section, the end of a section being its virtual_address plus the larger
\* of its virtual_size and its data length.
C16_NewSectionAddress ==
    bdNew # 0
    => /\ NewHeap.virtual_address # 0
       /\ NewHeap.virtual_address % \h1000 = 0
       /\ \A i \in 1..Len(ExistingHeaps) :
            ExistingHeaps[i].virtual_address
                + Max(ExistingHeaps[i].virtual_size, Len(ExistingHeaps[i].data))
              <= NewHeap.virtual_address

\* the part of C16 the code keeps: the new heap lies on a non-zero multiple
\* of 0x1000 above the data of every existing section
C16_NewSectionAboveData ==
    bdNew # 0
    => /\ NewHeap.virtual_address # 0
       /\ NewHeap.virtual_address % \h1000 = 0
       /\ \A i \in 1..Len(ExistingHeaps) :
            ExistingHeaps[i].virtual_address + Len(ExistingHeaps[i].data)
              < NewHeap.virtual_address

\* the bytes the add_data calls after the i-th last added
RECURSIVE AddedBefore(_, _)
AddedBefore(calls, i) ==
    IF i >= Len(calls) THEN 0
    ELSE Len(calls[i + 1].data) + AddedBefore(calls, i + 1)

\* every add_data call returned virtual_address + the length the data had,
\* and its bytes sit at the returned address - virtual_address
AddDataPlaced ==
    \A i \in 1..Len(bdAddr) :
        /\ bdAddr[i].addr = NewHeap.virtual_address + AddedBefore(bdAddr, i)
        /\ SubSeq(NewHeap.data,
                  bdAddr[i].addr - NewHeap.virtual_address + 1,
                  bdAddr[i].addr - NewHeap.virtual_address + Len(bdAddr[i].data))
             = bdAddr[i].data

\* C18: add_data(d) appends d to the heap and returns virtual_address plus
\* the length the data had before, extending virtual_size if needed: after
\* any sequence of add_data calls virtual_size >= the data length, and the
\* bytes of each d sit at the returned address - virtual_address.
C18_AddDataExtends ==
    bdAddr # <<>>
    => /\ AddDataPlaced
       /\ NewHeap.virtual_size >= Len(NewHeap.data)

\* the part of C18 the code keeps: the address returned and where the bytes
\* sit, with virtual_size left as new_section set it
C18_AddDataAppends ==
    bdAddr # <<>> => AddDataPlaced /\ NewHeap.virtual_size = 0

-----------------------------------------------------------------------------
(* The builder: the layout of the file write_file returns *)

\* the heaps write_file emitted, and where the section table of the output
\* ends: behind the DOS header padded to e_lfanew, the signature, the COFF
\* header, the optional header and one row for every heap
OutHeaps == iter_sections(bdDef.sections)
OutTable ==
    Max(bdDef.dos_header.e_lfanew, DosHeaderSize) + Len(SIGNATURE) + CoffHeaderSize
        + OptSize(bdDef.optional_header)
OutTableEnd == OutTable + SectionTableRowSize * Len(OutHeaps)

\* the i-th row of the section table of the output, read from its bytes
OutRow(i) ==
    RowRead(Cursor("slice_reader",
                   SubSeq(bdOut.val, OutTable + SectionTableRowSize * (i - 1) + 1,
                          OutTable + SectionTableRowSize * i), 0)).res.val

\* the section table of the output
OutRows == [i \in 1..Len(OutHeaps) |-> OutRow(i)]

\* where the gap before the raw data of the i-th row starts; the gap
\* behind the last row is that of row Len(rows) + 1
GapStart(rows, i) ==
    IF i = 1 THEN OutTableEnd
    ELSE rows[i - 1].pointer_to_raw_data + rows[i - 1].size_of_raw_data

GapEnd(rows, i) ==
    IF i > Len(rows) THEN Len(bdOut.val) ELSE rows[i].pointer_to_raw_data

MultipleOf(n, alignment) == IF alignment = 0 THEN n = 0 ELSE n % alignment = 0

FileLayoutOf(rows) ==
    /\ \A i \in 1..Len(rows) :
        /\ MultipleOf(rows[i].pointer_to_raw_data, WinField(bdDef, "file_alignment"))
        /\ rows[i].pointer_to_raw_data >= OutTableEnd
        /\ rows[i].size_of_raw_data = Len(OutHeaps[i].data)
        /\ GapStart(rows, i) <= rows[i].pointer_to_raw_data
        /\ SubSeq(bdOut.val, rows[i].pointer_to_raw_data + 1,
                  rows[i].pointer_to_raw_data + rows[i].size_of_raw_data)
             = OutHeaps[i].data
    /\ \A i \in 1..(Len(rows) + 1) :
        SubSeq(bdOut.val, GapStart(rows, i) + 1, GapEnd(rows, i))
            = Zeros(GapEnd(rows, i) - GapStart(rows, i))

FileLayout == \A rows \in {OutRows} : FileLayoutOf(rows)

\* C19: in the file write_file returns, every row's pointer_to_raw_data is a
\* multiple of file_alignment and not below the end of the section table,
\* its size_of_raw_data is the data length of its section, consecutive raw
\* ranges do not overlap, the bytes at [pointer, pointer + size) are the
\* section's data, and the bytes in the gaps are zero.
C19_FileLayout == IsOk(bdOut) => FileLayout

\* the part of C19 the code keeps: the layout with a file_alignment that
\* is not 0
C19_AlignedFileLayout ==
    (IsOk(bdOut) /\ WinField(bdDef, "file_alignment") # 0) => FileLayout

\* the sum fix_headers rounds: the headers of the definition write_file
\* was called on, with the optional header as large as it was then
HeadersSum ==
    bdBefore.dos_header.e_lfanew + Len(SIGNATURE) + CoffHeaderSize
        + OptSize(bdBefore.optional_header)
        + SectionTableRowSize * count(bdBefore.sections)

\* file_alignment is a power of two
RECURSIVE IsPowerOfTwo(_)
IsPowerOfTwo(n) ==
    IF n <= 1 THEN n = 1 ELSE n % 2 = 0 /\ IsPowerOfTwo(n \div 2)

\* the smallest multiple of alignment that is >= n
RoundUp(n, alignment) == ((n + alignment - 1) \div alignment) * alignment

\* C20: fix_headers sets size_of_headers to e_lfanew + 4 + 20 +
\* optional_header.size() + 40 * (emitted sections) rounded up to the file
\* alignment: the smallest multiple of file_alignment, a power of two,
\* that is >= the sum.
C20_SizeOfHeadersRoundedUp ==
    (bdBefore # <<>> /\ IsPowerOfTwo(WinField(bdBefore, "file_alignment")))
    => WinField(bdDef, "size_of_headers")
         = RoundUp(HeadersSum, WinField(bdBefore, "file_alignment"))

\* the part of C20 the code keeps: size_of_headers is the smallest multiple
\* of file_alignment above the sum, one alignment too many when the sum is
\* a multiple itself
C20_SizeOfHeadersNextMultiple ==
    (bdBefore # <<>> /\ IsPowerOfTwo(WinField(bdBefore, "file_alignment")))
    => WinField(bdDef, "size_of_headers")
         = RoundUp(HeadersSum + 1, WinField(bdBefore, "file_alignment"))

-----------------------------------------------------------------------------
(* The cursors: what a failed call leaves behind *)

\* the last call was a read_slice of a read cursor, or a write_slice of a
\* bounded sink, that failed
IoLastFailed ==
    /\ ioLast.op = "read_slice" \/ ioLast.op = "write_slice"
    /\ ioKind \in ReaderKinds \cup BoundedWriterKinds
    /\ IsErr(ioLast.res)

\* C30: a read_slice that fails with NotEnoughDataLeft, or a write_slice on
\* a bounded sink that fails with NotEnoughSpaceLeft, leaves the position,
\* the remaining data and the buffer contents as they were, so a read_slice
\* that follows a failed one and asks for no more than the bytes remaining
\* succeeds and returns the bytes at the unchanged position.
C30_FailedCallLeavesCursor ==
    /\ IoLastFailed => ioPos = ioLast.prePos /\ ioBuf = ioLast.preBuf
    /\ (ioLast.op = "read_slice" /\ ioLast.prevOp = "read_slice"
            /\ ioLast.prevFailed /\ ioLast.size <= IoPreRemaining)
       => /\ ioLast.res
               = Ok(SubSeq(ioLast.preBuf, ioLast.prePos + 1,
                           ioLast.prePos + ioLast.size))
          /\ ioPos = ioLast.prePos + ioLast.size

\* a read of the bytes left that succeeded right after a read that had
\* failed on a cursor with bytes left
C30_Witness ==
    /\ ioKind \in ReaderKinds
    /\ ioLast.op = "read_slice" /\ ioLast.prevOp = "read_slice"
    /\ ioLast.prevFailed
    /\ ioLast.size > 0 /\ IsOk(ioLast.res)
    /\ ioLast.prePos > 0

-----------------------------------------------------------------------------
(* The builder: what fix_headers leaves in the optional header *)

\* write_file was called and its fix_headers returned
BdFixed == bdBefore # <<>> /\ ~IsPanic(bdOut)

\* number_of_rva_and_sizes covers the directories from the i-th to the
\* last-th (counted from 1) that are not (0, 0)
Covers(self, last) ==
    \A i \in 1..last :
        ~is_null(get_directory(self.optional_header.data_directories,
                               ALL_DATA_DIRECTORIES[i]))
            => WinField(self, "number_of_rva_and_sizes") >= i

\* C21: after fix_headers, number_of_rva_and_sizes covers the
\* highest-indexed non-empty data directory: it is >= i + 1 for every
\* directory index i (0..15) whose entry is not (0, 0); and fix_headers
\* never lowers number_of_rva_and_sizes.
C21_DirectoryCountCovers ==
    BdFixed
    => /\ Covers(bdDef, NumberOfDirectories)
       /\ WinField(bdDef, "number_of_rva_and_sizes")
            >= WinField(bdBefore, "number_of_rva_and_sizes")

\* the part of C21 the code keeps: the directories before the last one are
\* covered, and number_of_rva_and_sizes is never lowered
C21_DirectoryCountCoversButLast ==
    BdFixed
    => /\ Covers(bdDef, NumberOfDirectories - 1)
       /\ WinField(bdDef, "number_of_rva_and_sizes")
            >= WinField(bdBefore, "number_of_rva_and_sizes")

\* the three fields fix_headers recomputes
FixedFields(self) ==
    <<WinField(self, "size_of_headers"), WinField(self, "size_of_image"),
      WinField(self, "number_of_rva_and_sizes")>>

\* C28: fix_headers is idempotent: a second call in a row leaves the
\* size_of_headers, size_of_image and number_of_rva_and_sizes of the first;
\* so the size_of_headers write_file emits is the aligned header size
\* computed with the number_of_rva_and_sizes it emits.
C28_FixHeadersIdempotent ==
    BdFixed
    => /\ FixedFields(fix_headers(bdDef, TRUE).def) = FixedFields(bdDef)
       /\ WinField(bdDef, "size_of_headers") = HeadersSize(bdDef)

\* the part of C28 the code keeps: a second call leaves
\* number_of_rva_and_sizes, and leaves all three fields when the first call
\* did not raise number_of_rva_and_sizes
C28_FixHeadersIdempotentCount ==
    BdFixed
    => /\ FixedFields(fix_headers(bdDef, TRUE).def)[3] = FixedFields(bdDef)[3]
       /\ WinField(bdDef, "number_of_rva_and_sizes")
              = WinField(bdBefore, "number_of_rva_and_sizes")
            => FixedFields(fix_headers(bdDef, TRUE).def) = FixedFields(bdDef)

\* the sections the parser returned for the image of the shape, as the
\* heaps from_pe_file makes of them, without those at virtual address 0
ParsedHeaps ==
    SelectSeq([i \in 1..bdShape.nsec |->
                  SectionHeap(name_str(ShapeRow(bdShape, i).name),
                              ShapeRow(bdShape, i).virtual_address,
                              ShapeRow(bdShape, i).virtual_size,
                              ShapeRow(bdShape, i).characteristics,
                              SubSeq(ShapeImage(bdShape),
                                     ShapeRow(bdShape, i).pointer_to_raw_data + 1,
                                     ShapeRow(bdShape, i).pointer_to_raw_data
                                         + ShapeRow(bdShape, i).size_of_raw_data))],
              LAMBDA heap : heap.virtual_address # 0)

\* how often the heap h occurs in heaps
Occurrences(heaps, h) == Cardinality({i \in 1..Len(heaps) : heaps[i] = h})

\* the definition is as from_pe_file returned it
BdLifted == bdShape.corrupt # "empty" /\ bdNew = 0 /\ bdOut = Pending

\* C29: from_pe_file loses no section: every parsed section with a
\* non-zero virtual address appears exactly once among iter_sections() with
\* its name, virtual_address, virtual_size, characteristics and data, and
\* count() is the number of such sections, also when several sections share
\* a well-known name.
C29_NoSectionLost ==
    BdLifted
    => /\ count(bdDef.sections) = Len(ParsedHeaps)
       /\ \A i \in 1..Len(ParsedHeaps) :
            Occurrences(iter_sections(bdDef.sections), ParsedHeaps[i])
                = Occurrences(ParsedHeaps, ParsedHeaps[i])

\* the part of C29 the code keeps: no section is lost when no two sections
\* have the same name
C29_NoSectionLostDistinctNames ==
    (BdLifted /\ bdShape.corrupt # "same_name")
    => /\ count(bdDef.sections) = Len(ParsedHeaps)
       /\ \A i \in 1..Len(ParsedHeaps) :
            Occurrences(iter_sections(bdDef.sections), ParsedHeaps[i])
                = Occurrences(ParsedHeaps, ParsedHeaps[i])

-----------------------------------------------------------------------------
(* SectionDefinitions: sections that do not overlap *)

\* the ranges [virtual_address, virtual_address + data length) of the
\* emitted heaps are pairwise disjoint
RangesDisjoint(heaps) ==
    \A i, j \in 1..Len(heaps) :
        i < j => \/ heaps[i].virtual_address + Len(heaps[i].data)
                      <= heaps[j].virtual_address
                 \/ heaps[j].virtual_address + Len(heaps[j].data)
                      <= heaps[i].virtual_address

\* C27: starting from a SectionDefinitions with no overlapping sections,
\* after any sequence of new_section / add_section with virtual_address 0
\* and add_data on any of the sections, has_overlapping_sections() is
\* false: the ranges of the emitted sections stay pairwise disjoint.
C27_NeverOverlapping ==
    /\ ~has_overlapping_sections(sdDefs)
    /\ RangesDisjoint(iter_sections(sdDefs))

\* C27 as the code has it: the sections stay disjoint when add_data is
\* only called on the heap that was added last
C27_NeverOverlappingLastHeap ==
    ~sdStray
    => /\ ~has_overlapping_sections(sdDefs)
       /\ RangesDisjoint(iter_sections(sdDefs))

\* two heaps were added, each filled with a page of data before the next
\* was added
C27_Witness ==
    /\ ~sdStray
    /\ sdAdded >= 2
    /\ Len(sdDefs.other[sdAdded].data) >= \h1000
    /\ Len(sdDefs.other[sdAdded - 1].data) >= \h1000

-----------------------------------------------------------------------------
(* Base relocation directory *)

RelocDone == secKind = "reloc" /\ secOut # Pending

\* the header of the block declares 8 + 2n for its n entries
RelocProper(block) == block.block_size = 8 + 2 * Len(block.words)

\* every entry of the block has one of the type codes 0..10
RelocTyped(block) == \A i \in 1..Len(block.words) : block.words[i] \div 4096 <= 10

\* the block as the claim has it decoded
RelocExpected(block) ==
    [base_rva |-> block.base_rva, block_size |-> block.block_size,
     table |-> [i \in 1..Len(block.words) |->
                   [relocation_type |-> block.words[i] \div 4096,
                    offset |-> block.words[i] % 4096]]]

\* C23: a directory of blocks that each declare 8 + 2n bytes for their n
\* entries decodes to those blocks, each with its n entries (type the high
\* 4 bits, offset the low 12), every block starting where the one before
\* it ended; an entry with a type code of 11..15 makes it
\* InvalidImageFormat
C23_RelocBlocksDecode ==
    (RelocDone /\ \A i \in 1..Len(secIn.made) : RelocProper(secIn.made[i]))
        => IF \A i \in 1..Len(secIn.made) : RelocTyped(secIn.made[i])
           THEN secOut = Ok([i \in 1..Len(secIn.made) |-> RelocExpected(secIn.made[i])])
           ELSE secOut = invalid_image_format

C23_Witness ==
    /\ RelocDone /\ IsOk(secOut)
    /\ Len(secIn.made) = 2
    /\ \A i \in 1..2 : RelocProper(secIn.made[i]) /\ Len(secIn.made[i].words) = 2
    /\ Len(secOut.val[2].table) = 2

\* the bytes of the directory from the start of block i
RelocRemaining(i) ==
    Len(Flatten([j \in 1..(Len(secIn.made) - i + 1) |->
                    RelocBlockBytes(secIn.made[i + j - 1])]))

\* block i is reached by the decoder, and its block_size is below 8, odd,
\* or larger than what is left of the directory
RelocBadAt(i) ==
    /\ \A j \in 1..(i - 1) : RelocProper(secIn.made[j]) /\ RelocTyped(secIn.made[j])
    /\ \/ secIn.made[i].block_size < 8
       \/ secIn.made[i].block_size % 2 = 1
       \/ secIn.made[i].block_size > RelocRemaining(i)

\* C24: a block whose block_size is below 8 (0 included), odd, or larger
\* than the remaining bytes makes the decode return an error value: it
\* does not panic and does not succeed
C24_BadBlockSizeIsError ==
    RelocDone => \A i \in 1..Len(secIn.made) : RelocBadAt(i) => IsErr(secOut)

\* what the code keeps of C24: the error value in a build whose arithmetic
\* wraps, and for every block_size of 8 or more; the panic is that of
\* block_size - 8 in a build that checks overflow
C24_BadBlockSizeIsErrorUnlessChecked ==
    RelocDone => \A i \in 1..Len(secIn.made) : RelocBadAt(i) =>
        IF secIn.made[i].block_size < 8 /\ ~secWraps
        THEN IsPanic(secOut) ELSE IsErr(secOut)

-----------------------------------------------------------------------------
(* Certificate directory *)

CertDone == secKind = "cert" /\ secOut # Pending

CertLengthAt(data, o) == FromLe32(SubSeq(data, o + 1, o + 4))

\* the record offsets o_0 = 0, o_(i+1) = roundup8(o_i + length_i) of the
\* directory: ok when some o_k is the size of the directory, not ok when
\* a record, or its aligned end, passes the end, or a length is below 8
RECURSIVE CertOffsets(_, _, _)
CertOffsets(data, o, offsets) ==
    IF o + 8 > Len(data) THEN [ok |-> FALSE, offsets |-> offsets]
    ELSE IF CertLengthAt(data, o) < 8 \/ o + CertLengthAt(data, o) > Len(data)
    THEN [ok |-> FALSE, offsets |-> offsets]
    ELSE IF RoundUp(o + CertLengthAt(data, o), 8) = Len(data)
    THEN [ok |-> TRUE, offsets |-> Append(offsets, o)]
    ELSE IF RoundUp(o + CertLengthAt(data, o), 8) > Len(data)
    THEN [ok |-> FALSE, offsets |-> offsets]
    ELSE CertOffsets(data, RoundUp(o + CertLengthAt(data, o), 8), Append(offsets, o))

CertificatesOf(data, ref) ==
    /\ IsOk(secOut) <=> ref.ok
    /\ IsOk(secOut) =>
          /\ Len(secOut.val) = Len(ref.offsets)
          /\ \A i \in 1..Len(ref.offsets) :
                /\ secOut.val[i].length = CertLengthAt(data, ref.offsets[i])
                /\ secOut.val[i].certificate =
                      SubSeq(data, ref.offsets[i] + 9,
                             ref.offsets[i] + CertLengthAt(data, ref.offsets[i]))

\* C25: the certificate decode returns Ok with all the records exactly
\* when some record offset o_k equals the size of the directory, and an
\* error value, never a panic, when a record or its aligned end passes the
\* end of the directory
C25_CertificateWalk ==
    CertDone => /\ ~IsPanic(secOut)
                /\ \A ref \in {CertOffsets(secIn.data, 0, <<>>)} :
                      CertificatesOf(secIn.data, ref)

\* what the code keeps of C25: a directory whose size is a multiple of 8
C25_CertificateWalkAligned ==
    (CertDone /\ Len(secIn.data) % 8 = 0)
        => /\ ~IsPanic(secOut)
           /\ \A ref \in {CertOffsets(secIn.data, 0, <<>>)} :
                 CertificatesOf(secIn.data, ref)

\* and without the size being one: nothing but the panic differs
C25_CertificateWalkOrPanic ==
    (CertDone /\ ~IsPanic(secOut))
        => \A ref \in {CertOffsets(secIn.data, 0, <<>>)} :
              CertificatesOf(secIn.data, ref)

C25_TwoRecords ==
    CertDone /\ IsOk(secOut) /\ Len(secOut.val) = 2 /\ secOut.val[1].length = 12

-----------------------------------------------------------------------------
(* Import directory *)

IdataDone == secKind = "idata" /\ secOut # Pending

\* the words of an entry that the variant reads
EntryWords(entry, magic) == IF magic = "PE32" THEN SubSeq(entry, 1, 2) ELSE entry

EntryZero(entry, magic) ==
    \A i \in 1..Len(EntryWords(entry, magic)) : EntryWords(entry, magic)[i] = 0

\* bit 31 of a PE32 entry, bit 63 of a PE32+ one
EntryTopBit(entry, magic) ==
    EntryWords(entry, magic)[Len(EntryWords(entry, magic))] >= 32768

\* the low 31 bits of the entry
EntryLow31(entry) == entry[1] + (entry[2] % 32768) * 65536

\* the low 31 bits are the RVA of the hint/name entry of the image
EntryResolves(entry) == EntryLow31(entry) = \h1000

\* the lookup table as the claim has it decoded: the rows before the first
\* zero entry; the data ends first when there is none.  A table of no bytes
\* at the end of the section is at an RVA outside it
RECURSIVE LookupRows(_, _, _, _, _)
LookupRows(entries, terminated, magic, i, rows) ==
    IF entries = <<>> /\ ~terminated THEN [end |-> "unmapped", rows |-> rows]
    ELSE IF i > Len(entries)
    THEN [end |-> IF terminated THEN "zero" ELSE "truncated", rows |-> rows]
    ELSE IF EntryZero(entries[i], magic) THEN [end |-> "zero", rows |-> rows]
    ELSE IF EntryTopBit(entries[i], magic)
    THEN LookupRows(entries, terminated, magic, i + 1,
                    Append(rows, Ordinal(entries[i][1])))
    ELSE IF EntryResolves(entries[i])
    THEN LookupRows(entries, terminated, magic, i + 1,
                    Append(rows, HintName(7, EntryLow31(entries[i]), <<97, 98>>)))
    ELSE [end |-> "unmapped", rows |-> rows]

Truncated(res) == IsErr(res) /\ res.err = "NotEnoughDataLeft"

ImportsOf(made, tail, ref) ==
    IF made.dlls > 0 /\ ref.end = "truncated" THEN Truncated(secOut)
    ELSE IF made.dlls > 0 /\ ref.end = "unmapped" THEN secOut = invalid_image_format
    ELSE IF tail # Zeros(20) THEN Truncated(secOut)
    ELSE secOut = Ok([i \in 1..made.dlls |->
                         [import_directory_table |-> ImportRow(i),
                          dll_name |-> <<107>>,
                          import_lookup_table |-> ref.rows]])

\* C22: the entries of an import lookup table are decoded in order, a zero
\* entry ending the table without a row, an entry with its top bit set
\* (bit 31, bit 63 for PE32+) giving Ordinal(low 16 bits), any other entry
\* HintName with the low 31 bits as name_rva and the hint and name read
\* there; a table without a zero entry ends in a truncation error, and so
\* does a directory without an all-zero row.  An entry whose RVA is in no
\* section ends the decode with InvalidImageFormat
C22_ImportLookupDecode ==
    IdataDone =>
        \A ref \in {LookupRows(secIn.made.entries, secIn.made.terminated,
                               secIn.magic, 1, <<>>)} :
            ImportsOf(secIn.made, secIn.tail, ref)

C22_Witness ==
    /\ IdataDone /\ IsOk(secOut) /\ secIn.magic = "PE32Plus"
    /\ Len(secOut.val) = 2
    /\ Len(secOut.val[2].import_lookup_table) = 2
    /\ secOut.val[2].import_lookup_table[1].tag = "Ordinal"
    /\ secOut.val[2].import_lookup_table[1].ordinal > 256
    /\ secOut.val[2].import_lookup_table[2].tag = "HintName"
    /\ secOut.val[2].import_lookup_table[2].name = <<97, 98>>

-----------------------------------------------------------------------------
(* Export directory *)

EdataDone == secKind = "edata" /\ secOut # Pending

\* the reference decode: each table read at its own RVA, and the names
\* one NUL-terminated string after the other
ExportReference(na, nn) ==
    [export_directory_table |-> ExportDirectoryOf(na, nn),
     export_address_table |-> [i \in 1..na |-> ExportAddressOf(i)],
     name_pointer_table |-> [i \in 1..nn |-> [v0 |-> ExportNameRva(na, nn, i)]],
     export_ordinal_table |-> [i \in 1..nn |-> [v0 |-> ExportOrdinalOf(i)]],
     export_name_table |-> [i \in 1..nn |-> ExportNameOf(i)]]

\* C26: the export decode is the reference decode: the address table read
\* at export_address_table, the name pointer table at name_pointer_rva, the
\* ordinal table at ordinal_table_rva, and number_of_name_pointers names,
\* the i-th the i-th consecutive NUL-terminated string of the name data
C26_ExportReferenceDecode ==
    (EdataDone /\ secIn.made.cut = 0)
        => secOut = Ok(ExportReference(secIn.made.addresses, secIn.made.names))

\* what the code keeps of C26: the directory, the address table, the
\* number of names and the first name; the other two tables are the bytes
\* of the address table read again, and every later name is empty
C26_ExportAddressTableDecode ==
    (EdataDone /\ secIn.made.cut = 0)
        => /\ IsOk(secOut)
           /\ secOut.val.export_directory_table
                 = ExportReference(secIn.made.addresses, secIn.made.names).export_directory_table
           /\ secOut.val.export_address_table
                 = ExportReference(secIn.made.addresses, secIn.made.names).export_address_table
           /\ Len(secOut.val.export_name_table) = secIn.made.names
           /\ \A i \in 1..secIn.made.names :
                 secOut.val.export_name_table[i]
                     = IF i = 1 THEN ExportNameOf(1) ELSE <<>>
           /\ secIn.made.names = 0
                 => secOut = Ok(ExportReference(secIn.made.addresses, 0))

\* a directory cut short is a truncation error
C26_ExportDirectoryCut ==
    (EdataDone /\ secIn.made.cut > 0) => Truncated(secOut)

=============================================================================
